---- MODULE Spec2Model ----
(***************************************************************************)
(* JTAG transport stack of the web FPGA loader: the 16-state TAP engine    *)
(* (JTAGStateMachine), the legacy USB-Blaster adapter (USBBlasterII) and   *)
(* the MPSSE adapter (DigilentFTDI).  Bytes are integers 0..255, bit       *)
(* vectors are sequences of 0/1, JavaScript index i is TLA+ index i+1.     *)
(***************************************************************************)
EXTENDS Integers, Sequences, FiniteSets, TLC

VARIABLES
    \* --- path search exercised on its own (findStatePath as a function)
    pathFrom, pathTo, pathResult, pathDone,
    \* --- SVF TAP engine on the legacy adapter
    currentState,  \* JTAGStateMachine.currentState
    prevState,     \* currentState when the last handler was entered
    endIRState,    \* JTAGStateMachine.endIRState
    endDRState,    \* JTAGStateMachine.endDRState
    hdrs,          \* this.hir / this.tir / this.hdr / this.tdr: <<>> while not
                   \* set, else <<length of the stored command>>
    realState,     \* state of the device TAP, driven by the wire
    resetDone,     \* reset() has completed on this engine
    lastCmd,       \* the handler that ran last, with its arguments
    calls,         \* adapter calls made by that handler, in order
    adCall,        \* last call made on a USBBlasterII directly
    adWire,        \* bytes that call wrote to the OUT endpoint
    adCount,       \* calls made on this adapter
    adReq,         \* bit lengths and cycle counts requested so far
    adEmit,        \* TCK rising edges put on the wire so far
    mpBuffer,      \* DigilentFTDI.buffer
    mpReadPending, \* DigilentFTDI.readPending
    mpLog,         \* USB transfers of the last DigilentFTDI call, in order
    mpCall,        \* that call and its arguments
    mpCount,       \* calls made on this DigilentFTDI
    mpReq,         \* bit lengths and cycle counts requested so far
    mpSent,        \* TCK edges encoded in the bytes transferred out so far
    xPc,           \* position of programBitDevice / programSRAM
    xState,        \* XilinxJTAG.state
    xFtdi,         \* calls made on XilinxJTAG.ftdi during the run, in order
    xOps,          \* TAP operations programSRAM has issued, in order
    xProgress,     \* percent values passed to onProgress, in order
    xRetry,        \* retry of the INIT poll loop
    xInitDone,     \* initDone
    xChunk,        \* i of the chunk loop
    xBitstream,    \* the payload handed to programSRAM
    xConfigData,   \* configData
    xDone,         \* done of the final check
    xResult,       \* what programSRAM returned
    xStatus,       \* bitStatus shown by programBitDevice
    runPc,         \* position of programDevice
    runCmds,       \* svfCommands.length
    runI,          \* i of the command loop
    runReqs,       \* requests made on the engine: -1 reset, i executeCommand
    runProgress,   \* percent values written to the progress bar, in order
    runFailAt,     \* request that threw, -2 while none has
    runStatus,     \* status shown by programDevice
    runList,       \* which array this.svfCommands is: the number of files
                   \* parsed since the run was started
    runStartCmds,  \* svfCommands.length when the run was started
    runExecd,      \* <<array, index>> of each command handed to executeCommand
    usbLog,        \* who issued each USB request since the run was started
    cancelled,     \* an external cancel signal has been raised
    cancelMark,    \* requests and TAP operations made when it was raised
    programBtnDisabled, \* programBtn.disabled of the SVF tab
    rdK,           \* expectedBytes of a flushAndRead
    rdBurst,       \* payload bytes the device has ready per IN transfer
    rdIdle,        \* status-only IN transfers before the first payload
    rdLen,         \* bitLen of a writeTDI with read-back
    rdLast,        \* its lastBitWithTMS
    rdPattern,     \* which TDO waveform the device samples
    rdData,        \* what flushAndRead returned
    rdTdo,         \* the tdo buffer after writeTDI
    rdDone,        \* the call has returned
    rvData,        \* the byte array handed to bitReverse
    rvOnce,        \* bitReverse(data)
    rvTwice,       \* bitReverse(bitReverse(data))
    rvDone,        \* both calls have returned
    hxLen,         \* nominal bit length of an SIR/SDR statement
    hxField,       \* TDI, TDO, MASK or SMASK
    hxHex,         \* hex digits of that field's literal, as written
    hxBytes,       \* the byte array parseShift stores for the field
    hxDone,        \* the statement has been parsed
    cnAdapter,     \* the class whose connect() is called
    cnFail,        \* the USB requests the device or the host fails
    cnDrain,       \* IN transfers that still return payload during the drain
    cnLog,         \* USB requests connect() has issued, in order, with outcome
    cnWarn,        \* requests whose failure was caught and logged
    cnResult,      \* how connect() settled
    cnDone,        \* connect() has settled
    stK,           \* expectedBytes of a flushAndRead on a faulty link
    stAvail,       \* payload bytes the device delivers before it goes silent
    stBurst,       \* payload bytes it has ready per IN transfer
    stOut,         \* what the bulk OUT of the call does: ok, reject or stall
    stData,        \* what the call returned
    stOutcome,     \* how the call ended: returned, error, or hung for ever
    ssFrom,        \* this.state when setState is called
    ssTo,          \* targetState of the call
    ssTms,         \* the TMS bits the call collected
    ssPath,        \* this.state after each turn of the loop
    ssState,       \* this.state on return
    ssEnded,       \* the loop of the call ended
    ssDone,        \* the call has been made
    bfKind,        \* the chosen file is a .bit with header, or a raw payload
    bfFile,        \* this.bitData, the bytes of the file
    bfPayload,     \* the configuration payload the file carries
    bfInfo,        \* this.bitInfo, what parseBitHeader returned
    bfConfig,      \* configData handed to programSRAM
    bfDone,        \* programBitDevice has extracted configData
    svText,        \* svfText, the characters of the SVF file
    svCommands,    \* the commands parse returned
    svDone         \* parse has returned

pathVars == <<pathFrom, pathTo, pathResult, pathDone>>
engineVars == <<currentState, prevState, endIRState, endDRState, hdrs,
                realState, resetDone, lastCmd, calls>>
adapterVars == <<adCall, adWire, adCount, adReq, adEmit>>
mpsseVars == <<mpBuffer, mpReadPending, mpLog, mpCall, mpCount, mpReq, mpSent>>
xilinxVars == <<xPc, xState, xFtdi, xOps, xProgress, xRetry, xInitDone, xChunk,
                xBitstream, xConfigData, xDone, xResult, xStatus>>
runVars == <<runPc, runCmds, runI, runReqs, runProgress, runFailAt, runStatus,
             runList, runStartCmds, runExecd, usbLog, cancelled, cancelMark,
             programBtnDisabled>>
readVars == <<rdK, rdBurst, rdIdle, rdLen, rdLast, rdPattern, rdData, rdTdo, rdDone>>
revVars == <<rvData, rvOnce, rvTwice, rvDone>>
hexVars == <<hxLen, hxField, hxHex, hxBytes, hxDone>>
connVars == <<cnAdapter, cnFail, cnDrain, cnLog, cnWarn, cnResult, cnDone>>
stallVars == <<stK, stAvail, stBurst, stOut, stData, stOutcome>>
setVars == <<ssFrom, ssTo, ssTms, ssPath, ssState, ssEnded, ssDone>>
bitVars == <<bfKind, bfFile, bfPayload, bfInfo, bfConfig, bfDone>>
svfVars == <<svText, svCommands, svDone>>
pureVars == <<revVars, hexVars, connVars, stallVars, setVars, bitVars, svfVars>>
nonEngineVars == <<pathVars, adapterVars, mpsseVars, xilinxVars, runVars, readVars, pureVars>>
nonPathVars == <<engineVars, adapterVars, mpsseVars, xilinxVars, runVars, readVars, pureVars>>
nonAdapterVars == <<pathVars, engineVars, mpsseVars, xilinxVars, runVars, readVars, pureVars>>
nonXilinxVars == <<pathVars, engineVars, adapterVars, mpsseVars, runVars, readVars, pureVars>>
nonMpsseVars == <<pathVars, engineVars, adapterVars, xilinxVars, runVars, readVars, pureVars>>
nonRunVars == <<pathVars, engineVars, adapterVars, mpsseVars, xilinxVars, readVars, pureVars>>
nonReadVars == <<pathVars, engineVars, adapterVars, mpsseVars, xilinxVars, runVars, pureVars>>
machineVars == <<pathVars, engineVars, adapterVars, mpsseVars, xilinxVars, runVars, readVars>>
vars == <<machineVars, pureVars>>

-----------------------------------------------------------------------------
(* Generic helpers *)

Min(a, b) == IF a < b THEN a ELSE b
Max(a, b) == IF a > b THEN a ELSE b
CeilDiv(a, b) == (a + b - 1) \div b
Pow2(k) == 2 ^ k
\* (byte >> k) & 1
BitOf(byte, k) == (byte \div Pow2(k)) % 2
\* new Array(n).fill(v)
Fill(n, v) == [i \in 1..n |-> v]

RECURSIVE Concat(_)
Concat(ss) == IF ss = <<>> THEN <<>> ELSE Head(ss) \o Concat(Tail(ss))

-----------------------------------------------------------------------------
(* The TAP transition table *)

States == {"RESET", "IDLE", "DRSELECT", "DRCAPTURE", "DRSHIFT", "DREXIT1",
           "DRPAUSE", "DREXIT2", "DRUPDATE", "IRSELECT", "IRCAPTURE",
           "IRSHIFT", "IREXIT1", "IRPAUSE", "IREXIT2", "IRUPDATE"}

\* this.stateTransitions: state -> <<next on TMS=0, next on TMS=1>>
stateTransitions ==
    [s \in States |->
        CASE s = "RESET"     -> <<"IDLE", "RESET">>
          [] s = "IDLE"      -> <<"IDLE", "DRSELECT">>
          [] s = "DRSELECT"  -> <<"DRCAPTURE", "IRSELECT">>
          [] s = "DRCAPTURE" -> <<"DRSHIFT", "DREXIT1">>
          [] s = "DRSHIFT"   -> <<"DRSHIFT", "DREXIT1">>
          [] s = "DREXIT1"   -> <<"DRPAUSE", "DRUPDATE">>
          [] s = "DRPAUSE"   -> <<"DRPAUSE", "DREXIT2">>
          [] s = "DREXIT2"   -> <<"DRSHIFT", "DRUPDATE">>
          [] s = "DRUPDATE"  -> <<"IDLE", "DRSELECT">>
          [] s = "IRSELECT"  -> <<"IRCAPTURE", "RESET">>
          [] s = "IRCAPTURE" -> <<"IRSHIFT", "IREXIT1">>
          [] s = "IRSHIFT"   -> <<"IRSHIFT", "IREXIT1">>
          [] s = "IREXIT1"   -> <<"IRPAUSE", "IRUPDATE">>
          [] s = "IRPAUSE"   -> <<"IRPAUSE", "IREXIT2">>
          [] s = "IREXIT2"   -> <<"IRSHIFT", "IRUPDATE">>
          [] s = "IRUPDATE"  -> <<"IDLE", "DRSELECT">>]

\* the value of an absent key (JavaScript undefined)
Undefined == "undefined"

\* this.stateTransitions[state]?.[tms]
NextOf(state, tms) ==
    IF state \in DOMAIN stateTransitions
    THEN stateTransitions[state][tms + 1]
    ELSE Undefined

\* the TAP of the device: IEEE 1149.1, always in one of the 16 states
TapStep(state, tms) == stateTransitions[state][tms + 1]

\* the TAP after the TMS values tmsSeq[lo..hi], halving the range
RECURSIVE TapRunRange(_, _, _, _)
TapRunRange(state, tmsSeq, lo, hi) ==
    IF lo > hi THEN state
    ELSE IF lo = hi THEN TapStep(state, tmsSeq[lo])
    ELSE LET mid == (lo + hi) \div 2
             half == TapRunRange(state, tmsSeq, lo, mid)
         IN  IF half \in States THEN TapRunRange(half, tmsSeq, mid + 1, hi)
             ELSE half

TapRun(state, tmsSeq) == TapRunRange(state, tmsSeq, 1, Len(tmsSeq))

-----------------------------------------------------------------------------
(* findStatePath: breadth-first search, TMS=0 tried before TMS=1 *)

\* one iteration of `for (const tms of [0, 1])` on the entry taken from the
\* queue; st = [queue, visited, found, path]
BfsVisit(st, entry, tms, to) ==
    LET nextState == NextOf(entry.state, tms)
        nextPath == Append(entry.path, tms)
    IN  IF st.found THEN st
        ELSE IF nextState = Undefined \/ nextState \in st.visited THEN st
        ELSE IF nextState = to
             THEN [st EXCEPT !.found = TRUE, !.path = nextPath]
        ELSE [st EXCEPT !.visited = @ \cup {nextState},
                        !.queue = Append(@, [state |-> nextState,
                                             path |-> nextPath])]

RECURSIVE BfsLoop(_, _)
BfsLoop(st, to) ==
    IF st.found THEN st.path
    ELSE IF st.queue = <<>> THEN <<>>
    ELSE LET entry == Head(st.queue)
             st0 == [st EXCEPT !.queue = Tail(@)]
         IN  BfsLoop(BfsVisit(BfsVisit(st0, entry, 0, to), entry, 1, to), to)

\* a search that first drives the TAP to RESET and looks for the target from
\* there
FindStatePathViaReset(from, to) ==
    IF from = to THEN <<>>
    ELSE <<1, 1, 1, 1, 1>> \o
         (IF to = "RESET" THEN <<>>
          ELSE BfsLoop([queue |-> <<[state |-> "RESET", path |-> <<>>]>>,
                        visited |-> {"RESET"}, found |-> FALSE, path |-> <<>>], to))

findStatePath(from, to) ==
    IF from = to THEN <<>>
    ELSE BfsLoop([queue |-> <<[state |-> from, path |-> <<>>]>>,
                  visited |-> {from}, found |-> FALSE, path |-> <<>>], to)

\* one iteration of the loop of applyTMSSequence
ApplyTms(cur, tms) ==
    LET nextState == NextOf(cur, tms)
    IN  IF nextState # Undefined THEN nextState ELSE cur

RECURSIVE ApplyTmsRange(_, _, _, _)
ApplyTmsRange(cur, tmsArray, lo, hi) ==
    IF lo > hi THEN cur
    ELSE IF lo = hi THEN ApplyTms(cur, tmsArray[lo])
    ELSE LET mid == (lo + hi) \div 2
             half == ApplyTmsRange(cur, tmsArray, lo, mid)
         IN  IF half \in States THEN ApplyTmsRange(half, tmsArray, mid + 1, hi)
             ELSE half

\* applyTMSSequence: the tracked state after the bits of tmsArray, in order
applyTMSSequence(cur, tmsArray) == ApplyTmsRange(cur, tmsArray, 1, Len(tmsArray))

-----------------------------------------------------------------------------
(* Legacy adapter (USBBlasterII): every method is modelled by the bytes it  *)
(* writes to the bulk OUT endpoint, transfers concatenated in order.        *)

\* arr[i] of a JavaScript array, 0 where the index is out of range
At(arr, i) == IF (i + 1) \in DOMAIN arr THEN arr[i + 1] ELSE 0

BitBangBase == 44
MaxBytesPerCmd == 63
BitBangBatch == 64
ByteShiftMinBits == 16

\* shiftBitBang: a setup byte (TCK=0) and a clock byte (TCK=1) per bit
shiftBitBang(tdiBits, tmsBits, startIndex, bitCount, capture) ==
    [k \in 1..(2 * bitCount) |->
        LET bitIdx == startIndex + ((k - 1) \div 2)
            tdi == IF At(tdiBits, bitIdx) # 0 THEN 16 ELSE 0
            tms == IF At(tmsBits, bitIdx) # 0 THEN 2 ELSE 0
            base == BitBangBase + tdi + tms
        IN  IF k % 2 = 1 THEN base
            ELSE base + 1 + (IF capture THEN 64 ELSE 0)]

\* canUseByteshiftMode: the next min(8, remaining) bits all have TMS=0
canUseByteshiftMode(tmsBits, startIndex, totalLength) ==
    \A i \in 0..(Min(8, totalLength - startIndex) - 1) :
        At(tmsBits, startIndex + i) = 0

\* the data byte packed by shiftBytewise for byte number byteNo of the run
PackByte(tdiBits, startBit, bitCount, byteNo) ==
    LET bitVal(bit) ==
            LET bitIdx == startBit + byteNo * 8 + bit
            IN  IF bitIdx < startBit + bitCount /\ At(tdiBits, bitIdx) # 0
                THEN Pow2(bit) ELSE 0
    IN  bitVal(0) + bitVal(1) + bitVal(2) + bitVal(3)
        + bitVal(4) + bitVal(5) + bitVal(6) + bitVal(7)

\* shiftBytewise: packets <<0x80 | N, N data bytes>>, N <= 63
shiftBytewise(tdiBits, startBit, bitCount) ==
    LET numBytes == CeilDiv(bitCount, 8)
        numPackets == CeilDiv(numBytes, MaxBytesPerCmd)
        Packet(p) ==
            LET byteOffset == (p - 1) * MaxBytesPerCmd
                bytesInThisPacket == Min(MaxBytesPerCmd, numBytes - byteOffset)
            IN  <<128 + (bytesInThisPacket % 64)>> \o
                [i \in 1..bytesInThisPacket |->
                    PackByte(tdiBits, startBit, bitCount, byteOffset + i - 1)]
    IN  Concat([p \in 1..numPackets |-> Packet(p)])

\* the while loop of shiftBits from position bitIndex on
RECURSIVE ShiftBitsLoop(_, _, _, _, _)
ShiftBitsLoop(tdiBits, tmsBits, bitLength, capture, bitIndex) ==
    IF bitIndex >= bitLength THEN <<>>
    ELSE IF (~capture /\ canUseByteshiftMode(tmsBits, bitIndex, bitLength))
            /\ (bitLength - bitIndex) >= ByteShiftMinBits
    THEN LET bitsToShift == ((bitLength - bitIndex) \div 8) * 8
         IN  shiftBytewise(tdiBits, bitIndex, bitsToShift) \o
             ShiftBitsLoop(tdiBits, tmsBits, bitLength, capture,
                           bitIndex + bitsToShift)
    ELSE LET batchSize == Min(BitBangBatch, bitLength - bitIndex)
         IN  shiftBitBang(tdiBits, tmsBits, bitIndex, batchSize, capture) \o
             ShiftBitsLoop(tdiBits, tmsBits, bitLength, capture,
                           bitIndex + batchSize)

shiftBits(tdiBits, tmsBits, bitLength, capture) ==
    ShiftBitsLoop(tdiBits, tmsBits, bitLength, capture, 0)

\* shiftBytesRaw without the bit-bang setup byte sent first
ShiftBytesRawNoAnchor(tdiBytes, startByte, numBytes) ==
    LET numCmds == CeilDiv(numBytes, MaxBytesPerCmd)
        Cmd(p) ==
            LET byteOffset == (p - 1) * MaxBytesPerCmd
                bytesInThisPacket == Min(MaxBytesPerCmd, numBytes - byteOffset)
            IN  <<128 + (bytesInThisPacket % 64)>> \o
                [i \in 1..bytesInThisPacket |->
                    At(tdiBytes, startByte + byteOffset + i - 1)]
    IN  Concat([p \in 1..numCmds |-> Cmd(p)])

\* shiftBytesRaw: the anchor byte, then byte-shift commands of at most 63
\* data bytes; the batches of the outer loop follow each other on the wire
shiftBytesRaw(tdiBytes, startByte, numBytes) ==
    LET numCmds == CeilDiv(numBytes, MaxBytesPerCmd)
        Cmd(p) ==
            LET byteOffset == (p - 1) * MaxBytesPerCmd
                bytesInThisPacket == Min(MaxBytesPerCmd, numBytes - byteOffset)
            IN  <<128 + (bytesInThisPacket % 64)>> \o
                [i \in 1..bytesInThisPacket |->
                    At(tdiBytes, startByte + byteOffset + i - 1)]
    IN  <<BitBangBase>> \o Concat([p \in 1..numCmds |-> Cmd(p)])

\* toggleClockCycles: anchor byte, then ceil(cycles/8) zero bytes byte-shifted
toggleClockCycles(cycles) ==
    IF cycles <= 0 THEN <<>>
    ELSE LET numBytes == CeilDiv(cycles, 8)
         IN  <<BitBangBase>> \o shiftBytesRaw(Fill(numBytes, 0), 0, numBytes)

\* bit idx (counted from the start of byte lastByteStart) of tdiBytes
TdiBitFrom(tdiBytes, lastByteStart, i) ==
    IF i < 0 THEN 0
    ELSE BitOf(At(tdiBytes, lastByteStart + (i \div 8)), i % 8)

\* shiftBytes that byte-shifts every byte, the last one included
ShiftBytesAllFast(tdiBytes, bitLength) ==
    shiftBytesRaw(tdiBytes, 0, CeilDiv(bitLength, 8))

\* shiftBytes: all bytes but the last byte-shifted, the rest bit-banged with
\* TMS=0, the last bit bit-banged with TMS=1
shiftBytes(tdiBytes, bitLength) ==
    LET numBytes == CeilDiv(bitLength, 8)
        bytesToShiftFast == IF numBytes > 1 THEN numBytes - 1 ELSE 0
        lastByteStart == bytesToShiftFast
        remainingBits == bitLength - bytesToShiftFast * 8
        fast == IF bytesToShiftFast > 0
                THEN shiftBytesRaw(tdiBytes, 0, bytesToShiftFast) ELSE <<>>
        body == IF remainingBits > 1
                THEN [k \in 1..(2 * (remainingBits - 1)) |->
                        BitBangBase
                        + 16 * TdiBitFrom(tdiBytes, lastByteStart, (k - 1) \div 2)
                        + (IF k % 2 = 1 THEN 0 ELSE 1)]
                ELSE <<>>
        lastTdi == TdiBitFrom(tdiBytes, lastByteStart, remainingBits - 1)
        last == <<BitBangBase + 16 * lastTdi + 2, BitBangBase + 16 * lastTdi + 3>>
    IN  fast \o body \o last

-----------------------------------------------------------------------------
(* What the device sees: the TCK edges encoded by a stream of wire bytes.   *)
(* A bit-bang byte has bit 7 clear: bit 0 TCK, bit 1 TMS, bit 4 TDI; a      *)
(* rising TCK is one edge.  A byte with bit 7 set starts a byte shift of    *)
(* N = byte & 0x3F data bytes: 8 edges each, TMS=0, TDI LSB first.          *)

ByteShiftEdges(data) ==
    [k \in 1..(8 * Len(data)) |->
        <<BitOf(data[((k - 1) \div 8) + 1], (k - 1) % 8), 0>>]

\* the end of the run of bit-bang bytes that starts at pos
BitBangRunEnd(bytes, pos) ==
    LET cmds == {j \in pos..Len(bytes) : bytes[j] >= 128}
    IN  IF cmds = {} THEN Len(bytes)
        ELSE (CHOOSE j \in cmds : \A i \in cmds : j <= i) - 1

IsRisingEdge(pair) == pair[1] % 2 = 1 /\ pair[2] = 0

\* the edges of bit-bang bytes bytes[pos..last], TCK being tck before them
BitBangEdges(bytes, pos, last, tck) ==
    LET pairs == [j \in 1..(last - pos + 1) |->
                    <<bytes[pos + j - 1],
                      IF j = 1 THEN tck ELSE bytes[pos + j - 2] % 2>>]
        rising == SelectSeq(pairs, IsRisingEdge)
    IN  [k \in 1..Len(rising) |->
            <<BitOf(rising[k][1], 4), BitOf(rising[k][1], 1)>>]

RECURSIVE DecodeFrom(_, _, _)
DecodeFrom(bytes, pos, tck) ==
    IF pos > Len(bytes) THEN <<>>
    ELSE IF bytes[pos] >= 128
    THEN LET n == bytes[pos] % 64
             last == Min(pos + n, Len(bytes))
         IN  ByteShiftEdges(SubSeq(bytes, pos + 1, last))
             \o DecodeFrom(bytes, last + 1, 0)
    ELSE LET last == BitBangRunEnd(bytes, pos)
         IN  BitBangEdges(bytes, pos, last, tck)
             \o DecodeFrom(bytes, last + 1, bytes[last] % 2)

\* the sequence of <<TDI, TMS>> presented on successive TCK edges
WireEdges(bytes) == DecodeFrom(bytes, 1, 0)

TmsOf(edges) == [k \in 1..Len(edges) |-> edges[k][2]]
TdiOf(edges) == [k \in 1..Len(edges) |-> edges[k][1]]

-----------------------------------------------------------------------------
(* SVF TAP engine (JTAGStateMachine).  An engine value e is                 *)
(* [cur |-> tracked state, calls |-> adapter calls made so far].            *)

ResetClocks == 100
\* the length above which shiftData takes the byte path
LargeThreshold == 1000

CallShiftBits(tdiBits, tmsBits, n, capture) ==
    [op |-> "shiftBits", tdi |-> tdiBits, tms |-> tmsBits, n |-> n,
     capture |-> capture]
CallShiftBytes(tdiBytes, n) ==
    [op |-> "shiftBytes", tdi |-> tdiBytes, tms |-> <<>>, n |-> n,
     capture |-> FALSE]
CallToggle(cycles) ==
    [op |-> "toggleClockCycles", tdi |-> <<>>, tms |-> <<>>, n |-> cycles,
     capture |-> FALSE]

\* the bytes one adapter call puts on the wire
WireOfCall(c) ==
    CASE c.op = "shiftBits" -> shiftBits(c.tdi, c.tms, c.n, c.capture)
      [] c.op = "shiftBytes" -> shiftBytes(c.tdi, c.n)
      [] c.op = "toggleClockCycles" -> toggleClockCycles(c.n)

WireOfCalls(cs) == Concat([k \in 1..Len(cs) |-> WireOfCall(cs[k])])

\* moveToState that always emits the path to RESET and on to the target
MoveViaReset(e, targetState) ==
    LET path == <<1, 1, 1, 1, 1>> \o findStatePath("RESET", targetState)
    IN  [cur |-> applyTMSSequence(e.cur, path),
         calls |-> Append(e.calls,
                     CallShiftBits(Fill(Len(path), 0), path, Len(path), FALSE))]

moveToState(e, targetState) ==
    LET path == findStatePath(e.cur, targetState)
    IN  IF Len(path) = 0 THEN e
        ELSE [cur |-> applyTMSSequence(e.cur, path),
              calls |-> Append(e.calls,
                          CallShiftBits(Fill(Len(path), 0), path, Len(path), FALSE))]

\* clockTMS
clockTMS(e, tms) ==
    [cur |-> applyTMSSequence(e.cur, <<tms>>),
     calls |-> Append(e.calls, CallShiftBits(<<0>>, <<tms>>, 1, FALSE))]

\* reset that sets the tracked state without clocking TMS=0
ResetWithoutIdle(e) ==
    LET tmsBits == Fill(ResetClocks, 1)
        tdiBits == Fill(ResetClocks, 0)
        e1 == [cur |-> applyTMSSequence(e.cur, tmsBits),
               calls |-> Append(e.calls,
                           CallShiftBits(tdiBits, tmsBits, ResetClocks, FALSE))]
    IN  [e1 EXCEPT !.cur = "IDLE"]

\* reset: resetClocks edges with TMS=1, one with TMS=0, tracked state IDLE
reset(e) ==
    LET tmsBits == Fill(ResetClocks, 1)
        tdiBits == Fill(ResetClocks, 0)
        e1 == [cur |-> applyTMSSequence(e.cur, tmsBits),
               calls |-> Append(e.calls,
                           CallShiftBits(tdiBits, tmsBits, ResetClocks, FALSE))]
        e2 == clockTMS(e1, 0)
    IN  [e2 EXCEPT !.cur = "IDLE"]

bytesToBits(bytes, length) ==
    [i \in 1..length |-> BitOf(At(bytes, (i - 1) \div 8), (i - 1) % 8)]

\* shiftData(tdi, length, capture)
shiftData(e, tdi, length, capture) ==
    IF length = 0 THEN e
    ELSE IF length > LargeThreshold /\ ~capture
    THEN [cur |-> IF e.cur = "DRSHIFT" THEN "DREXIT1" ELSE "IREXIT1",
          calls |-> Append(e.calls, CallShiftBytes(tdi, length))]
    ELSE LET tdiArray == bytesToBits(tdi, length)
             tmsArray == [i \in 1..length |-> IF i = length THEN 1 ELSE 0]
         IN  [cur |-> applyTMSSequence(e.cur, tmsArray),
              calls |-> Append(e.calls,
                          CallShiftBits(tdiArray, tmsArray, length, capture))]

\* shiftIR(cmd); cmd = [length, hasTdi, tdi]
shiftIR(e, cmd, endIR) ==
    LET e1 == moveToState(e, "IRSHIFT")
        e2 == IF cmd.hasTdi THEN shiftData(e1, cmd.tdi, cmd.length, FALSE)
              ELSE e1
    IN  moveToState(e2, endIR)

\* shiftDR(cmd)
shiftDR(e, cmd, endDR) ==
    LET e1 == moveToState(e, "DRSHIFT")
        e2 == IF cmd.hasTdi THEN shiftData(e1, cmd.tdi, cmd.length, FALSE)
              ELSE e1
    IN  moveToState(e2, endDR)

\* runTest(cmd); cmd = [cycles, state, endState]
runTest(e, cmd) ==
    LET cycles == cmd.cycles
        runState == IF cmd.state = Undefined THEN "IDLE" ELSE cmd.state
        endState == IF cmd.endState = Undefined THEN runState ELSE cmd.endState
        e1 == moveToState(e, runState)
        e2 == IF cycles > 0
              THEN [e1 EXCEPT !.calls = Append(@, CallToggle(cycles))]
              ELSE e1
    IN  IF endState # runState THEN moveToState(e2, endState) ELSE e2

-----------------------------------------------------------------------------
(* The MPSSE adapter (DigilentFTDI): command buffer, writeTMS, writeTDI,
   toggleClk, flush and flushAndRead.  An adapter value m is a record of
   buffer, readPending and the USB transfers made so far in the call. *)

WriteTmsCmd == 75
ClockBytes == 143
ClockBits == 142
SendImmediate == 135
MpsseLsb == 8
MpsseBitmode == 2
MpsseWriteNeg == 1
MpsseDoWrite == 16
MpsseDoRead == 32
MpsseWriteTms == 64
maxBufferSize == 4096
TmsBitsPerCmd == 6
MaxChunk == 4096
MaxClockBytes == 65536
TdiFlushMargin == 100
ClkFlushMargin == 10

Push(m, bytes) == [m EXCEPT !.buffer = m.buffer \o bytes]

\* a flush that empties the buffer without the OUT transfer
FlushDiscard(m) == [m EXCEPT !.buffer = <<>>]

flush(m) ==
    IF Len(m.buffer) = 0 THEN m
    ELSE [m EXCEPT !.buffer = <<>>,
                   !.log = Append(m.log, [dir |-> "out", data |-> m.buffer, n |-> 0])]

\* a read of the IN endpoint that leaves the buffered commands unsent
ReadWithoutFlush(m, expectedBytes) ==
    [m EXCEPT !.log = Append(m.log, [dir |-> "in", data |-> <<>>, n |-> expectedBytes])]

\* the response bytes only reach the caller; the adapter keeps none of them
flushAndRead(m, expectedBytes) ==
    [m EXCEPT !.buffer = <<>>,
              !.log = m.log \o
                  <<[dir |-> "out", data |-> Append(m.buffer, SendImmediate), n |-> 0],
                    [dir |-> "in", data |-> <<>>, n |-> expectedBytes]>>]

\* one WRITE_TMS command for the bits offset .. offset+bitsToSend-1 of tmsData
TmsCommand(tmsData, offset, bitsToSend, tdi) ==
    LET bit(i) == BitOf(At(tmsData, (offset + i) \div 8), (offset + i) % 8)
        RECURSIVE pack(_)
        pack(i) == IF i = bitsToSend THEN 0 ELSE bit(i) * Pow2(i) + pack(i + 1)
        lastTmsBit == bit(bitsToSend - 1)
        tmsByte == (IF tdi # 0 THEN 128 ELSE 0) + pack(0)
                   + lastTmsBit * Pow2(bitsToSend)
    IN  <<WriteTmsCmd, bitsToSend - 1, tmsByte>>

RECURSIVE WriteTmsLoop(_, _, _, _, _)
WriteTmsLoop(m, tmsData, offset, remaining, tdi) ==
    IF remaining > 0
    THEN LET bitsToSend == Min(TmsBitsPerCmd, remaining)
         IN  WriteTmsLoop(Push(m, TmsCommand(tmsData, offset, bitsToSend, tdi)),
                          tmsData, offset + bitsToSend, remaining - bitsToSend, tdi)
    ELSE m

writeTMS(m, tmsData, bitLen, doFlush, tdi) ==
    LET after == WriteTmsLoop(m, tmsData, 0, bitLen, tdi)
    IN  IF doFlush THEN flush(after) ELSE after

\* the byte loop of writeTDI
RECURSIVE WriteTdiBytes(_, _, _, _, _, _)
WriteTdiBytes(m, tdi, byteCmd, readBack, txOffset, numBytes) ==
    IF numBytes > 0
    THEN LET chunkSize == Min(numBytes, MaxChunk)
             lenMinus1 == chunkSize - 1
             pushed == Push(m, <<byteCmd, lenMinus1 % 256, (lenMinus1 \div 256) % 256>>
                               \o [i \in 1..chunkSize |-> At(tdi, txOffset + i - 1)])
             counted == IF readBack
                        THEN [pushed EXCEPT !.readPending = @ + chunkSize]
                        ELSE pushed
             flushed == IF Len(counted.buffer) > maxBufferSize - TdiFlushMargin
                        THEN flush(counted) ELSE counted
         IN  WriteTdiBytes(flushed, tdi, byteCmd, readBack,
                           txOffset + chunkSize, numBytes - chunkSize)
    ELSE m

writeTDI(m, tdi, readBack, bitLen, lastBitWithTMS) ==
    IF bitLen = 0 THEN m
    ELSE
    LET realLen == IF lastBitWithTMS THEN bitLen - 1 ELSE bitLen
        oneByte == realLen \div 8 = 1 /\ realLen % 8 = 0 /\ ~lastBitWithTMS
        numBytes == IF oneByte THEN 0 ELSE realLen \div 8
        numBits == IF oneByte THEN 8 ELSE realLen % 8
        byteCmd == MpsseLsb + MpsseWriteNeg + MpsseDoWrite
                   + (IF readBack THEN MpsseDoRead ELSE 0)
        bitCmd == byteCmd + MpsseBitmode
        afterBytes == WriteTdiBytes(m, tdi, byteCmd, readBack, 0, numBytes)
        afterBits ==
            IF numBits > 0
            THEN LET pushed == Push(afterBytes, <<bitCmd, numBits - 1, At(tdi, numBytes)>>)
                 IN  IF readBack THEN [pushed EXCEPT !.readPending = @ + 1] ELSE pushed
            ELSE afterBytes
        lastBitData == BitOf(At(tdi, numBytes), numBits)
        tmsCmd == MpsseWriteTms + MpsseLsb + MpsseBitmode + MpsseWriteNeg
                  + (IF readBack THEN MpsseDoRead ELSE 0)
        afterTms ==
            IF lastBitWithTMS
            THEN LET pushed == Push(afterBits,
                                    <<tmsCmd, 0, IF lastBitData = 1 THEN 129 ELSE 1>>)
                 IN  IF readBack THEN [pushed EXCEPT !.readPending = @ + 1] ELSE pushed
            ELSE afterBits
    IN  IF readBack /\ afterTms.readPending > 0
        THEN [flushAndRead(afterTms, afterTms.readPending) EXCEPT !.readPending = 0]
        ELSE flush(afterTms)

RECURSIVE ToggleClkLoop(_, _)
ToggleClkLoop(m, remaining) ==
    IF remaining > 0
    THEN LET cycles8 == Min(remaining \div 8, MaxClockBytes)
             lenMinus1 == cycles8 - 1
             pushed == IF remaining >= 8
                       THEN Push(m, <<ClockBytes, lenMinus1 % 256,
                                      (lenMinus1 \div 256) % 256>>)
                       ELSE Push(m, <<ClockBits, remaining - 1>>)
             left == IF remaining >= 8 THEN remaining - cycles8 * 8 ELSE 0
             flushed == IF Len(pushed.buffer) > maxBufferSize - ClkFlushMargin
                        THEN flush(pushed) ELSE pushed
         IN  ToggleClkLoop(flushed, left)
    ELSE m

\* toggleClk that clocks whole bytes only, rounding the count up
ToggleClkBytesOnly(m, count) ==
    IF count > 0
    THEN LET lenMinus1 == CeilDiv(count, 8) - 1
         IN  flush(Push(m, <<ClockBytes, lenMinus1 % 256, (lenMinus1 \div 256) % 256>>))
    ELSE flush(m)

toggleClk(m, count) == flush(ToggleClkLoop(m, count))

\* the TCK edges encoded in a stream of MPSSE commands, read from position pos
RECURSIVE MpsseEdges(_, _)
MpsseEdges(bytes, pos) ==
    IF pos > Len(bytes) THEN 0
    ELSE LET op == bytes[pos]
             len16 == bytes[pos + 1] + 256 * bytes[pos + 2] + 1
             hasData == (op \div MpsseDoWrite) % 2 = 1
         IN  IF op = SendImmediate THEN MpsseEdges(bytes, pos + 1)
             ELSE IF op = ClockBytes THEN 8 * len16 + MpsseEdges(bytes, pos + 3)
             ELSE IF op = ClockBits THEN bytes[pos + 1] + 1 + MpsseEdges(bytes, pos + 2)
             ELSE IF (op \div MpsseWriteTms) % 2 = 1
             THEN bytes[pos + 1] + 1 + MpsseEdges(bytes, pos + 3)
             ELSE IF (op \div MpsseBitmode) % 2 = 1
             THEN bytes[pos + 1] + 1
                  + MpsseEdges(bytes, pos + 2 + (IF hasData THEN 1 ELSE 0))
             ELSE 8 * len16
                  + MpsseEdges(bytes, pos + 3 + (IF hasData THEN len16 ELSE 0))

\* the bytes a sequence of USB transfers carried to the OUT endpoint
OutBytes(log) ==
    Concat([k \in 1..Len(log) |-> IF log[k].dir = "out" THEN log[k].data ELSE <<>>])

NoMpCall == [op |-> "none", tdi |-> <<>>, n |-> 0, readBack |-> FALSE,
             lastBitWithTMS |-> FALSE, doFlush |-> FALSE, tdiBit |-> 0]

\* new DigilentFTDI()
MpsseIdle ==
    /\ mpBuffer = <<>>
    /\ mpReadPending = 0
    /\ mpLog = <<>>
    /\ mpCall = NoMpCall
    /\ mpCount = 0
    /\ mpReq = 0
    /\ mpSent = 0

-----------------------------------------------------------------------------
(* Xilinx programmer (XilinxJTAG) on the MPSSE adapter.  An engine value x is
   [state |-> this.state, ftdi |-> calls made on this.ftdi so far]. *)

irLength == 6
IrJprogram == 11
IrBypass == 63
IrCfgIn == 5
IrJstart == 12

XStates == {"TEST_LOGIC_RESET", "RUN_TEST_IDLE", "SELECT_DR_SCAN", "CAPTURE_DR",
            "SHIFT_DR", "EXIT1_DR", "PAUSE_DR", "EXIT2_DR", "UPDATE_DR",
            "SELECT_IR_SCAN", "CAPTURE_IR", "SHIFT_IR", "EXIT1_IR", "PAUSE_IR",
            "EXIT2_IR", "UPDATE_IR"}

DrTargets == {"CAPTURE_DR", "SHIFT_DR", "EXIT1_DR", "PAUSE_DR", "EXIT2_DR", "UPDATE_DR"}
IrTargets == {"CAPTURE_IR", "SHIFT_IR", "EXIT1_IR", "PAUSE_IR", "EXIT2_IR", "UPDATE_IR"}

\* a walk that leaves every state but TEST_LOGIC_RESET with TMS=1 and takes the
\* TAP to be reset after a single edge
SetStateStepViaReset(state, targetState) ==
    IF state = "TEST_LOGIC_RESET" THEN <<0, "RUN_TEST_IDLE">>
    ELSE <<1, "TEST_LOGIC_RESET">>

\* one iteration of the while loop of setState: <<tms, next this.state>>
SetStateStep(state, targetState) ==
    CASE state = "TEST_LOGIC_RESET" -> <<0, "RUN_TEST_IDLE">>
      [] state = "RUN_TEST_IDLE" ->
            IF targetState = "RUN_TEST_IDLE" THEN <<0, state>>
            ELSE <<1, "SELECT_DR_SCAN">>
      [] state = "SELECT_DR_SCAN" ->
            IF targetState \in DrTargets THEN <<0, "CAPTURE_DR">>
            ELSE <<1, "SELECT_IR_SCAN">>
      [] state = "CAPTURE_DR" ->
            IF targetState = "SHIFT_DR" THEN <<0, "SHIFT_DR">> ELSE <<1, "EXIT1_DR">>
      [] state = "SHIFT_DR" -> <<1, "EXIT1_DR">>
      [] state = "EXIT1_DR" ->
            IF targetState \in {"PAUSE_DR", "EXIT2_DR"} THEN <<0, "PAUSE_DR">>
            ELSE <<1, "UPDATE_DR">>
      [] state = "PAUSE_DR" -> <<1, "EXIT2_DR">>
      [] state = "EXIT2_DR" ->
            IF targetState = "SHIFT_DR" THEN <<0, "SHIFT_DR">> ELSE <<1, "UPDATE_DR">>
      [] state = "UPDATE_DR" ->
            IF targetState = "RUN_TEST_IDLE" THEN <<0, "RUN_TEST_IDLE">>
            ELSE <<1, "SELECT_DR_SCAN">>
      [] state = "SELECT_IR_SCAN" ->
            IF targetState \in IrTargets THEN <<0, "CAPTURE_IR">>
            ELSE <<1, "TEST_LOGIC_RESET">>
      [] state = "CAPTURE_IR" ->
            IF targetState = "SHIFT_IR" THEN <<0, "SHIFT_IR">> ELSE <<1, "EXIT1_IR">>
      [] state = "SHIFT_IR" -> <<1, "EXIT1_IR">>
      [] state = "EXIT1_IR" ->
            IF targetState \in {"PAUSE_IR", "EXIT2_IR"} THEN <<0, "PAUSE_IR">>
            ELSE <<1, "UPDATE_IR">>
      [] state = "PAUSE_IR" -> <<1, "EXIT2_IR">>
      [] state = "EXIT2_IR" ->
            IF targetState = "SHIFT_IR" THEN <<0, "SHIFT_IR">> ELSE <<1, "UPDATE_IR">>
      [] state = "UPDATE_IR" ->
            IF targetState = "RUN_TEST_IDLE" THEN <<0, "RUN_TEST_IDLE">>
            ELSE <<1, "SELECT_DR_SCAN">>

\* the while loop of setState: the TMS sequence collected from `state` on
RECURSIVE SetStateSeq(_, _)
SetStateSeq(state, targetState) ==
    IF state = targetState THEN <<>>
    ELSE LET step == SetStateStep(state, targetState)
         IN  <<step[1]>> \o SetStateSeq(step[2], targetState)

FtdiWriteTMS(tmsSeq) ==
    [op |-> "writeTMS", tms |-> tmsSeq, n |-> Len(tmsSeq), readBack |-> FALSE,
     last |-> FALSE]
FtdiWriteTDI(bitLen, readBack, lastBitWithTMS) ==
    [op |-> "writeTDI", tms |-> <<>>, n |-> bitLen, readBack |-> readBack,
     last |-> lastBitWithTMS]
FtdiToggleClk(tms, count) ==
    [op |-> "toggleClk", tms |-> <<tms>>, n |-> count, readBack |-> FALSE,
     last |-> FALSE]

goTestLogicReset(x) ==
    [state |-> "TEST_LOGIC_RESET",
     ftdi |-> Append(x.ftdi, FtdiWriteTMS(Fill(6, 1)))]

setState(x, targetState) ==
    IF x.state = targetState THEN x
    ELSE LET tmsSeq == SetStateSeq(x.state, targetState)
         IN  [state |-> targetState,
              ftdi |-> IF Len(tmsSeq) > 0 THEN Append(x.ftdi, FtdiWriteTMS(tmsSeq))
                       ELSE x.ftdi]

\* the part shiftIR and shiftDR share: move to the shift state, writeTDI, and
\* leave through EXIT1 unless the end state is the shift state
XShift(x, shiftState, exitState, bitLength, readBack, endState) ==
    LET x1 == IF x.state # shiftState THEN setState(x, shiftState) ELSE x
        lastBitExit == endState # shiftState
        x2 == [x1 EXCEPT !.ftdi = Append(@, FtdiWriteTDI(bitLength, readBack, lastBitExit))]
    IN  IF lastBitExit
        THEN LET x3 == [x2 EXCEPT !.state = exitState]
             IN  IF endState # exitState THEN setState(x3, endState) ELSE x3
        ELSE x2

xShiftIR(x, readBack, endState) ==
    XShift(x, "SHIFT_IR", "EXIT1_IR", irLength, readBack, endState)

\* a data shift that always leaves SHIFT_DR on its last bit
ShiftDRAlwaysExit(x, bitLength, readBack, endState) ==
    XShift(x, "SHIFT_DR", "EXIT1_DR", bitLength, readBack,
           IF endState = "SHIFT_DR" THEN "UPDATE_DR" ELSE endState)

xShiftDR(x, bitLength, readBack, endState) ==
    XShift(x, "SHIFT_DR", "EXIT1_DR", bitLength, readBack, endState)

xToggleClk(x, count) ==
    [x EXCEPT !.ftdi = Append(@, FtdiToggleClk(
                          IF x.state = "TEST_LOGIC_RESET" THEN 1 ELSE 0, count))]

\* the two nibbles of a byte exchanged, bit order inside them kept
SwapNibbles(byte) == (byte % 16) * 16 + (byte \div 16)

\* bitReverse of one byte: bit j of the input becomes bit 7-j
ReverseByte(byte) ==
    LET RECURSIVE rev(_, _, _)
        rev(b, r, j) == IF j = 8 THEN r ELSE rev(b \div 2, 2 * r + (b % 2), j + 1)
    IN  rev(byte, 0, 0)

bitReverse(data) == [i \in 1..Len(data) |-> ReverseByte(data[i])]

\* bitReverse has not been called
RevIdle ==
    /\ rvData = <<>>
    /\ rvOnce = <<>>
    /\ rvTwice = <<>>
    /\ rvDone = FALSE

\* no statement has been parsed
HexIdle ==
    /\ hxLen = 0
    /\ hxField = "TDI"
    /\ hxHex = <<>>
    /\ hxBytes = <<>>
    /\ hxDone = FALSE

\* connect() has not been called
ConnIdle ==
    /\ cnAdapter = "none"
    /\ cnFail = {}
    /\ cnDrain = 0
    /\ cnLog = <<>>
    /\ cnWarn = <<>>
    /\ cnResult = "none"
    /\ cnDone = FALSE

\* no call has been made on a faulty link
StallIdle ==
    /\ stK = 0
    /\ stAvail = 0
    /\ stBurst = 0
    /\ stOut = "ok"
    /\ stData = <<>>
    /\ stOutcome = "none"

SetIdle ==
    /\ ssFrom = "TEST_LOGIC_RESET"
    /\ ssTo = "TEST_LOGIC_RESET"
    /\ ssTms = <<>>
    /\ ssPath = <<>>
    /\ ssState = "TEST_LOGIC_RESET"
    /\ ssEnded = FALSE
    /\ ssDone = FALSE

BitIdle ==
    /\ bfKind = "raw"
    /\ bfFile = <<>>
    /\ bfPayload = <<>>
    /\ bfInfo = [dataOffset |-> <<>>, dataLength |-> <<>>, fields |-> <<>>]
    /\ bfConfig = <<>>
    /\ bfDone = FALSE

SvfIdle ==
    /\ svText = <<>>
    /\ svCommands = <<>>
    /\ svDone = FALSE

PureIdle == RevIdle /\ HexIdle /\ ConnIdle /\ StallIdle /\ SetIdle /\ BitIdle /\ SvfIdle

\* programDevice has not been entered
RunIdle ==
    /\ runPc = "idle"
    /\ runCmds = 0
    /\ runI = 0
    /\ runReqs = <<>>
    /\ runProgress = <<>>
    /\ runFailAt = -2
    /\ runStatus = "none"
    /\ runList = 0
    /\ runStartCmds = 0
    /\ runExecd = <<>>
    /\ usbLog = <<>>
    /\ cancelled = FALSE
    /\ cancelMark = <<0, 0>>
    /\ programBtnDisabled = FALSE

\* no read has been made on the IN endpoint
ReadIdle ==
    /\ rdK = 0
    /\ rdBurst = 0
    /\ rdIdle = 0
    /\ rdLen = 0
    /\ rdLast = FALSE
    /\ rdPattern = 0
    /\ rdData = <<>>
    /\ rdTdo = <<>>
    /\ rdDone = FALSE

\* new XilinxJTAG(ftdi), no programming run started
XilinxIdle ==
    /\ xPc = "idle"
    /\ xState = "TEST_LOGIC_RESET"
    /\ xFtdi = <<>>
    /\ xOps = <<>>
    /\ xProgress = <<>>
    /\ xRetry = 0
    /\ xInitDone = FALSE
    /\ xChunk = 0
    /\ xBitstream = <<>>
    /\ xConfigData = <<>>
    /\ xDone = 0
    /\ xResult = "none"
    /\ xStatus = "none"

-----------------------------------------------------------------------------
(* Inputs of the SVF executor *)

MaxShiftLen == 17
MaxCycles == 3

\* bit lengths of SIR/SDR statements: none, one byte, the first lengths the
\* adapter may byte-shift, and the first length of the byte path of shiftData
ShiftLens == {0, 8} \cup (16..MaxShiftLen) \cup {LargeThreshold + 1}
\* <<length, TDI given>> of the SIR/SDR statements
ShiftInputs == {<<n, TRUE>> : n \in ShiftLens} \cup {<<8, FALSE>>}
\* state names an SVF file can carry that are not keys of the table
BadNames == {"RUN_TEST_IDLE", "idle"}
AllTargets == States \cup BadNames
FewTargets == {"IDLE", "IRPAUSE", "RUN_TEST_IDLE"}
EndIRNames == {Undefined, "irpause"}
EndDRNames == {Undefined, "DRPAUSE"}
RunCycles == {0, 8, MaxCycles}
RunInputs == {<<c, r, d>> : c \in RunCycles,
                            r \in {"IDLE", "DRPAUSE", "RUN_TEST_IDLE"},
                            d \in {"IDLE", "DRPAUSE"}}
FewRunInputs == {<<0, "IDLE", "IDLE">>, <<MaxCycles, "IDLE", "DRPAUSE">>,
                 <<8, "DRPAUSE", "IDLE">>}
HdrTypes == {"HIR", "TIR", "HDR", "TDR"}
HdrInputs == {<<"HDR", 3>>, <<"TIR", 2>>}
NoopTypes == {"FREQUENCY", "TRST", "PIO"}

\* the TDI bytes parseHexData yields for a literal of `length` bits
TdiBytes(length) == Fill(CeilDiv(length, 8), 165)

Cmd(type, target, length, hasTdi, cycles, endState) ==
    [type |-> type, target |-> target, length |-> length,
     hasTdi |-> hasTdi, cycles |-> cycles, endState |-> endState]

\* the TMS values the calls of a handler put on the wire, edge by edge
WireTms(cs) == TmsOf(WireEdges(WireOfCalls(cs)))

-----------------------------------------------------------------------------
(* Actions of the SVF executor on the legacy adapter *)

PathIdle ==
    /\ pathFrom = "RESET" /\ pathTo = "RESET"
    /\ pathResult = <<>> /\ pathDone = FALSE

EngineInit ==
    /\ currentState = "RESET"
    /\ prevState = "RESET"
    /\ endIRState = "IDLE"
    /\ endDRState = "IDLE"
    /\ hdrs = [t \in HdrTypes |-> <<>>]
    /\ realState \in States
    /\ resetDone = FALSE
    /\ lastCmd = Cmd("new", Undefined, 0, FALSE, 0, Undefined)
    /\ calls = <<>>

\* what every handler does with the engine value it ends with
Finish(e, cmd) ==
    /\ currentState' = e.cur
    /\ prevState' = currentState
    /\ calls' = e.calls
    /\ realState' = TapRun(realState, WireTms(e.calls))
    /\ lastCmd' = cmd

Fresh == [cur |-> currentState, calls |-> <<>>]

\* new JTAGStateMachine(usbBlaster) at the start of programDevice
NewSession ==
    /\ resetDone
    /\ currentState' = "RESET"
    /\ prevState' = "RESET"
    /\ endIRState' = "IDLE"
    /\ endDRState' = "IDLE"
    /\ hdrs' = [t \in HdrTypes |-> <<>>]
    /\ resetDone' = FALSE
    /\ lastCmd' = Cmd("new", Undefined, 0, FALSE, 0, Undefined)
    /\ calls' = <<>>
    /\ UNCHANGED <<realState, nonEngineVars>>

Reset ==
    /\ Finish(reset(Fresh), Cmd("reset", Undefined, 0, FALSE, 0, Undefined))
    /\ resetDone' = TRUE
    /\ UNCHANGED <<endIRState, endDRState, hdrs, nonEngineVars>>

ExecSTATE(targets) ==
    \E target \in targets :
        /\ resetDone
        /\ Finish(moveToState(Fresh, target),
                  Cmd("STATE", target, 0, FALSE, 0, Undefined))
        /\ UNCHANGED <<endIRState, endDRState, hdrs, resetDone, nonEngineVars>>

ExecSIR ==
    \E sh \in ShiftInputs :
        /\ resetDone
        /\ Finish(shiftIR(Fresh, [length |-> sh[1], hasTdi |-> sh[2],
                                  tdi |-> TdiBytes(sh[1])], endIRState),
                  Cmd("SIR", Undefined, sh[1], sh[2], 0, Undefined))
        /\ UNCHANGED <<endIRState, endDRState, hdrs, resetDone, nonEngineVars>>

ExecSDR ==
    \E sh \in ShiftInputs :
        /\ resetDone
        /\ Finish(shiftDR(Fresh, [length |-> sh[1], hasTdi |-> sh[2],
                                  tdi |-> TdiBytes(sh[1])], endDRState),
                  Cmd("SDR", Undefined, sh[1], sh[2], 0, Undefined))
        /\ UNCHANGED <<endIRState, endDRState, hdrs, resetDone, nonEngineVars>>

ExecRUNTEST(inputs) ==
    \E r \in inputs :
        /\ resetDone
        /\ Finish(runTest(Fresh, [cycles |-> r[1], state |-> r[2],
                                  endState |-> r[3]]),
                  Cmd("RUNTEST", r[2], 0, FALSE, r[1], r[3]))
        /\ UNCHANGED <<endIRState, endDRState, hdrs, resetDone, nonEngineVars>>

ExecENDIR ==
    \E s \in EndIRNames :
        /\ resetDone
        /\ endIRState' = (IF s = Undefined THEN "IDLE" ELSE s)
        /\ Finish(Fresh, Cmd("ENDIR", s, 0, FALSE, 0, Undefined))
        /\ UNCHANGED <<endDRState, hdrs, resetDone, nonEngineVars>>

\* an ENDDR that also walks the TAP to the state it names
ExecENDDRMoves ==
    \E s \in EndDRNames :
        /\ resetDone
        /\ endDRState' = (IF s = Undefined THEN "IDLE" ELSE s)
        /\ Finish(moveToState(Fresh, endDRState'),
                  Cmd("ENDDR", s, 0, FALSE, 0, Undefined))
        /\ UNCHANGED <<endIRState, hdrs, resetDone, nonEngineVars>>

ExecENDDR ==
    \E s \in EndDRNames :
        /\ resetDone
        /\ endDRState' = (IF s = Undefined THEN "IDLE" ELSE s)
        /\ Finish(Fresh, Cmd("ENDDR", s, 0, FALSE, 0, Undefined))
        /\ UNCHANGED <<endIRState, hdrs, resetDone, nonEngineVars>>

\* HIR / TIR / HDR / TDR: this[cmd.type.toLowerCase()] = cmd
ExecHeader ==
    \E h \in HdrInputs :
        /\ resetDone
        /\ hdrs' = [hdrs EXCEPT ![h[1]] = <<h[2]>>]
        /\ Finish(Fresh, Cmd(h[1], Undefined, h[2], FALSE, 0, Undefined))
        /\ UNCHANGED <<endIRState, endDRState, resetDone, nonEngineVars>>

\* FREQUENCY, TRST and the default branch
ExecNoop ==
    \E t \in NoopTypes :
        /\ resetDone
        /\ Finish(Fresh, Cmd(t, Undefined, 0, FALSE, 0, Undefined))
        /\ UNCHANGED <<endIRState, endDRState, hdrs, resetDone, nonEngineVars>>

AdapterIdle ==
    /\ adCall = [op |-> "none", tdi |-> <<>>, tms |-> <<>>, n |-> 0,
                 capture |-> FALSE]
    /\ adWire = <<>>
    /\ adCount = 0
    /\ adReq = 0
    /\ adEmit = 0

Init == PathIdle /\ EngineInit /\ AdapterIdle /\ MpsseIdle /\ XilinxIdle /\ RunIdle /\ ReadIdle /\ PureIdle

\* a programming run over an SVF file with every kind of statement
Next ==
    \/ NewSession
    \/ Reset
    \/ ExecSTATE(FewTargets)
    \/ ExecSIR
    \/ ExecSDR
    \/ ExecRUNTEST(FewRunInputs)
    \/ ExecENDIR
    \/ ExecENDDR
    \/ ExecHeader
    \/ ExecNoop

Spec == Init /\ [][Next]_vars

\* runs made of reset, STATE and RUNTEST, over every target name
MoveNext ==
    \/ NewSession
    \/ Reset
    \/ ExecSTATE(AllTargets)
    \/ ExecRUNTEST(RunInputs)

SpecMove == Init /\ [][MoveNext]_vars

\* RUNTEST statements naming each of the four stable states SVF allows as run
\* state, with and without an end state of their own
StableRunInputs == {<<c, r, d>> : c \in {0, MaxCycles},
                                  r \in {"RESET", "IDLE", "DRPAUSE", "IRPAUSE"},
                                  d \in {Undefined, "IDLE"}}

\* runs made of reset, STATE to each of the 16 states, and such RUNTESTs
ClockNext ==
    \/ NewSession
    \/ Reset
    \/ ExecSTATE(States)
    \/ ExecRUNTEST(StableRunInputs)

SpecClock == Init /\ [][ClockNext]_vars

-----------------------------------------------------------------------------
(* findStatePath exercised as a function over every ordered pair of states *)

EngineIdle ==
    /\ currentState = "RESET"
    /\ prevState = "RESET"
    /\ endIRState = "IDLE"
    /\ endDRState = "IDLE"
    /\ hdrs = [t \in HdrTypes |-> <<>>]
    /\ realState = "RESET"
    /\ resetDone = FALSE
    /\ lastCmd = Cmd("new", Undefined, 0, FALSE, 0, Undefined)
    /\ calls = <<>>

PathInit ==
    /\ pathFrom \in States
    /\ pathTo \in States
    /\ pathResult = <<>>
    /\ pathDone = FALSE
    /\ EngineIdle
    /\ AdapterIdle
    /\ MpsseIdle
    /\ XilinxIdle
    /\ RunIdle
    /\ ReadIdle
    /\ PureIdle

FindPath ==
    /\ ~pathDone
    /\ pathResult' = findStatePath(pathFrom, pathTo)
    /\ pathDone' = TRUE
    /\ UNCHANGED <<pathFrom, pathTo, nonPathVars>>

PathNext == FindPath

SpecPath == PathInit /\ [][PathNext]_vars

-----------------------------------------------------------------------------
(* The legacy adapter called directly: shiftBits, shiftBytes and
   toggleClockCycles on one USBBlasterII *)

MaxBits == 17
MaxToggle == 9
MaxCalls == 3
\* a bit length that needs more than one byte-shift command
LongBits == 8 * (MaxBytesPerCmd + 1) + 1

TmsPatterns(n) == {Fill(n, 0), Fill(n, 1), [i \in 1..n |-> IF i = n THEN 1 ELSE 0]}
TdiPatterns(n) == {[i \in 1..n |-> i % 2], [i \in 1..n |-> IF i % 3 = 0 THEN 1 ELSE 0]}
BytePatterns(n) ==
    {[i \in 1..CeilDiv(n, 8) |-> <<170, 85, 255>>[((i - 1) % 3) + 1]],
     TdiBytes(n)}

\* the first call on an adapter ranges over every input, the calls after it
\* over a few of them
BitLens == IF adCount = 0 THEN 0..MaxBits ELSE {ByteShiftMinBits}
ByteLens == IF adCount = 0 THEN (1..MaxBits) \cup {24, LongBits} ELSE {ByteShiftMinBits + 1}
ToggleCycles == IF adCount = 0 THEN 0..MaxToggle ELSE {1, 8}

Called(call, wire) ==
    /\ adCount < MaxCalls
    /\ adCall' = call
    /\ adWire' = wire
    /\ adCount' = adCount + 1
    /\ adReq' = adReq + call.n
    /\ adEmit' = adEmit + Len(WireEdges(wire))
    /\ UNCHANGED nonAdapterVars

\* new USBBlasterII()
AdNew ==
    /\ adCount > 0
    /\ adCall' = [op |-> "none", tdi |-> <<>>, tms |-> <<>>, n |-> 0,
                  capture |-> FALSE]
    /\ adWire' = <<>>
    /\ adCount' = 0
    /\ adReq' = 0
    /\ adEmit' = 0
    /\ UNCHANGED nonAdapterVars

AdShiftBits ==
    \E n \in BitLens, capture \in BOOLEAN :
        \E tms \in TmsPatterns(n), tdi \in TdiPatterns(n) :
            Called(CallShiftBits(tdi, tms, n, capture),
                   shiftBits(tdi, tms, n, capture))

AdShiftBytes ==
    \E n \in ByteLens :
        \E tdi \in BytePatterns(n) :
            Called(CallShiftBytes(tdi, n), shiftBytes(tdi, n))

AdToggleClockCycles ==
    \E cycles \in ToggleCycles :
        Called(CallToggle(cycles), toggleClockCycles(cycles))

LegacyInit == PathIdle /\ EngineIdle /\ AdapterIdle /\ MpsseIdle /\ XilinxIdle /\ RunIdle /\ ReadIdle /\ PureIdle

LegacyNext ==
    \/ AdNew
    \/ AdShiftBits
    \/ AdShiftBytes
    \/ AdToggleClockCycles

SpecLegacy == LegacyInit /\ [][LegacyNext]_vars

-----------------------------------------------------------------------------
(* The MPSSE adapter called directly *)

MaxTmsBits == 13
\* a bit length that needs more than one byte-mode command
BigBits == 8 * (MaxChunk + 1) + 3
\* a cycle count above what one clock-bytes command can carry
BigCount == 8 * (MaxClockBytes + 1) + 5

TmsLens == IF mpCount = 0 THEN 0..MaxTmsBits ELSE {TmsBitsPerCmd + 1}
TdiLens == IF mpCount = 0 THEN (0..MaxBits) \cup {BigBits} ELSE {MaxBits}
ClkCounts == IF mpCount = 0 THEN (0..MaxToggle) \cup {2000, 120000, BigCount}
             ELSE {MaxToggle}

MpCalled(call, m) ==
    /\ mpCount < MaxCalls
    /\ mpCall' = call
    /\ mpBuffer' = m.buffer
    /\ mpReadPending' = m.readPending
    /\ mpLog' = m.log
    /\ mpCount' = mpCount + 1
    /\ mpReq' = mpReq + call.n
    /\ mpSent' = mpSent + MpsseEdges(OutBytes(m.log), 1)
    /\ UNCHANGED nonMpsseVars

\* the adapter as a call finds it
MpNow == [buffer |-> mpBuffer, readPending |-> mpReadPending, log |-> <<>>]

MpNew ==
    /\ mpCount > 0
    /\ mpBuffer' = <<>>
    /\ mpReadPending' = 0
    /\ mpLog' = <<>>
    /\ mpCall' = NoMpCall
    /\ mpCount' = 0
    /\ mpReq' = 0
    /\ mpSent' = 0
    /\ UNCHANGED nonMpsseVars

MpWriteTMS ==
    \E n \in TmsLens, doFlush \in BOOLEAN, tdiBit \in {0, 1} :
        \E tmsData \in BytePatterns(n) :
            MpCalled([NoMpCall EXCEPT !.op = "writeTMS", !.tdi = tmsData, !.n = n,
                                      !.doFlush = doFlush, !.tdiBit = tdiBit],
                     writeTMS(MpNow, tmsData, n, doFlush, tdiBit))

MpWriteTDI ==
    \E n \in TdiLens, readBack \in BOOLEAN, lastBitWithTMS \in BOOLEAN :
        \E tdi \in BytePatterns(n) \cup (IF n = 8 THEN {<<129>>} ELSE {}) :
            MpCalled([NoMpCall EXCEPT !.op = "writeTDI", !.tdi = tdi, !.n = n,
                                      !.readBack = readBack,
                                      !.lastBitWithTMS = lastBitWithTMS],
                     writeTDI(MpNow, tdi, readBack, n, lastBitWithTMS))

MpToggleClk ==
    \E count \in ClkCounts :
        MpCalled([NoMpCall EXCEPT !.op = "toggleClk", !.n = count],
                 toggleClk(MpNow, count))

MpsseInit == PathIdle /\ EngineIdle /\ AdapterIdle /\ MpsseIdle /\ XilinxIdle /\ RunIdle /\ ReadIdle /\ PureIdle

MpsseNext ==
    \/ MpNew
    \/ MpWriteTMS
    \/ MpWriteTDI
    \/ MpToggleClk

SpecMpsse == MpsseInit /\ [][MpsseNext]_vars

-----------------------------------------------------------------------------
(* programBitDevice calling programSRAM, one action per step of the sequence *)

MaxInitRetries == 100
ChunkSize == 4096
MemClearClocks == 120000
StartupClocks == 2000

\* Math.round(a / b) for a >= 0, b > 0
RoundDiv(a, b) == (2 * a + b) \div (2 * b)

\* payload lengths: none, one byte, one full chunk, one byte more, and two
\* chunks and a byte
PayloadLens == {0, 1, ChunkSize, ChunkSize + 1, 2 * ChunkSize + 1}
PayloadOf(len) == [i \in 1..len |-> (7 * i + 3) % 256]
\* the byte shiftIR(BYPASS, true) hands back: bit 0 is read as INIT, bit 5 as
\* DONE
PollStatus == {0, 1}
VerifyStatus == {1, 33}

XNow == [state |-> xState, ftdi |-> xFtdi]

\* one call programSRAM made on the engine: x0 the engine before, x1 after;
\* arg is the instruction, the clock count, or the bit length
OpRec(op, arg, readBack, x0, x1, data, tdo) ==
    [op |-> op, arg |-> arg, readBack |-> readBack, before |-> x0.state,
     after |-> x1.state, from |-> Len(x0.ftdi) + 1, to |-> Len(x1.ftdi),
     data |-> data, tdo |-> tdo]

\* a step that leaves the engine as x, has issued ops and reported percents
XStep(pc, x, ops, percents) ==
    /\ xPc' = pc
    /\ xState' = x.state
    /\ xFtdi' = x.ftdi
    /\ xOps' = xOps \o ops
    /\ xProgress' = xProgress \o percents
    /\ UNCHANGED nonXilinxVars

\* programSRAM is entered: reportProgress(1), bitReverse, reportProgress(2)
XStart ==
    \E len \in PayloadLens :
        /\ xPc = "idle"
        /\ xBitstream' = PayloadOf(len)
        /\ xConfigData' = bitReverse(PayloadOf(len))
        /\ XStep("reset", XNow, <<>>, <<1, 2>>)
        /\ UNCHANGED <<xRetry, xInitDone, xChunk, xDone, xResult, xStatus>>

\* step 1: goTestLogicReset
XReset ==
    /\ xPc = "reset"
    /\ LET x == goTestLogicReset(XNow)
       IN  XStep("jprogram", x, <<OpRec("reset", 0, FALSE, XNow, x, <<>>, 0)>>, <<3>>)
    /\ UNCHANGED <<xRetry, xInitDone, xChunk, xBitstream, xConfigData, xDone,
                   xResult, xStatus>>

\* step 2: shiftIR(JPROGRAM)
XJprogram ==
    /\ xPc = "jprogram"
    /\ LET x == xShiftIR(XNow, FALSE, "RUN_TEST_IDLE")
       IN  XStep("poll", x,
                 <<OpRec("shiftIR", IrJprogram, FALSE, XNow, x, <<>>, 0)>>, <<4>>)
    /\ UNCHANGED <<xRetry, xInitDone, xChunk, xBitstream, xConfigData, xDone,
                   xResult, xStatus>>

\* the poll loop without its break: INIT high does not end the loop
XPollNoBreak ==
    \E status \in PollStatus :
        /\ xPc = "poll"
        /\ xRetry < MaxInitRetries
        /\ LET x == xShiftIR(XNow, TRUE, "RUN_TEST_IDLE")
               op == OpRec("shiftIR", IrBypass, TRUE, XNow, x, <<>>, status)
               percent == RoundDiv(400 + 4 * xRetry, 100)
           IN  /\ xInitDone' = (xInitDone \/ status % 2 = 1)
               /\ xRetry' = xRetry + 1
               /\ IF xRetry + 1 < MaxInitRetries
                  THEN XStep("poll", x, <<op>>, <<percent>>)
                  ELSE XStep("clear", x, <<op>>, <<percent, 8>>)
        /\ UNCHANGED <<xChunk, xBitstream, xConfigData, xDone, xResult, xStatus>>

\* step 3: one iteration of the INIT poll loop, and reportProgress(8) when the
\* loop is left
XPoll ==
    \E status \in PollStatus :
        /\ xPc = "poll"
        /\ xRetry < MaxInitRetries
        /\ LET x == xShiftIR(XNow, TRUE, "RUN_TEST_IDLE")
               op == OpRec("shiftIR", IrBypass, TRUE, XNow, x, <<>>, status)
               percent == RoundDiv(400 + 4 * xRetry, 100)
           IN  IF status % 2 = 1
               THEN /\ xInitDone' = TRUE
                    /\ xRetry' = xRetry
                    /\ XStep("clear", x, <<op>>, <<8>>)
               ELSE /\ xInitDone' = xInitDone
                    /\ xRetry' = xRetry + 1
                    /\ IF xRetry + 1 < MaxInitRetries
                       THEN XStep("poll", x, <<op>>, <<percent>>)
                       ELSE XStep("clear", x, <<op>>, <<percent, 8>>)
        /\ UNCHANGED <<xChunk, xBitstream, xConfigData, xDone, xResult, xStatus>>

\* step 4: setState(RUN_TEST_IDLE), toggleClk(120000)
XMemClear ==
    /\ xPc = "clear"
    /\ LET x1 == setState(XNow, "RUN_TEST_IDLE")
           x2 == xToggleClk(x1, MemClearClocks)
       IN  XStep("cfgin", x2,
                 <<OpRec("setState", 0, FALSE, XNow, x1, <<>>, 0),
                   OpRec("toggleClk", MemClearClocks, FALSE, x1, x2, <<>>, 0)>>,
                 <<10>>)
    /\ UNCHANGED <<xRetry, xInitDone, xChunk, xBitstream, xConfigData, xDone,
                   xResult, xStatus>>

\* steps 5 and 6: shiftIR(CFG_IN), setState(SELECT_DR_SCAN)
XCfgIn ==
    /\ xPc = "cfgin"
    /\ LET x1 == xShiftIR(XNow, FALSE, "RUN_TEST_IDLE")
           x2 == setState(x1, "SELECT_DR_SCAN")
       IN  XStep("chunks", x2,
                 <<OpRec("shiftIR", IrCfgIn, FALSE, XNow, x1, <<>>, 0),
                   OpRec("setState", 0, FALSE, x1, x2, <<>>, 0)>>, <<11, 12>>)
    /\ xChunk' = 0
    /\ UNCHANGED <<xRetry, xInitDone, xBitstream, xConfigData, xDone, xResult,
                   xStatus>>

totalChunks == CeilDiv(Len(xConfigData), ChunkSize)

\* step 7: one iteration of the chunk loop
XChunk ==
    /\ xPc = "chunks"
    /\ xChunk < totalChunks
    /\ LET offset == xChunk * ChunkSize
           remaining == Len(xConfigData) - offset
           thisChunkSize == Min(ChunkSize, remaining)
           chunk == SubSeq(xConfigData, offset + 1, offset + thisChunkSize)
           isLast == xChunk = totalChunks - 1
           endState == IF isLast THEN "UPDATE_DR" ELSE "SHIFT_DR"
           x == xShiftDR(XNow, Len(chunk) * 8, FALSE, endState)
           percent == RoundDiv(12 * Len(xConfigData) + 83 * (offset + thisChunkSize),
                               Len(xConfigData))
       IN  XStep("chunks", x,
                 <<OpRec("shiftDR", Len(chunk) * 8, FALSE, XNow, x, chunk, 0)>>, <<percent>>)
    /\ xChunk' = xChunk + 1
    /\ UNCHANGED <<xRetry, xInitDone, xBitstream, xConfigData, xDone, xResult,
                   xStatus>>

\* steps 8 and 9: setState(RUN_TEST_IDLE), shiftIR(JSTART, false, UPDATE_IR)
XJstart ==
    /\ xPc = "chunks"
    /\ xChunk >= totalChunks
    /\ LET x1 == setState(XNow, "RUN_TEST_IDLE")
           x2 == xShiftIR(x1, FALSE, "UPDATE_IR")
       IN  XStep("startup", x2,
                 <<OpRec("setState", 0, FALSE, XNow, x1, <<>>, 0),
                   OpRec("shiftIR", IrJstart, FALSE, x1, x2, <<>>, 0)>>, <<96, 97>>)
    /\ UNCHANGED <<xRetry, xInitDone, xChunk, xBitstream, xConfigData, xDone,
                   xResult, xStatus>>

\* the startup step with its two calls exchanged: reset, then the clocks
XStartupResetFirst ==
    /\ xPc = "startup"
    /\ LET x1 == goTestLogicReset(XNow)
           x2 == xToggleClk(x1, StartupClocks)
       IN  XStep("verify", x2,
                 <<OpRec("reset", 0, FALSE, XNow, x1, <<>>, 0),
                   OpRec("toggleClk", StartupClocks, FALSE, x1, x2, <<>>, 0)>>,
                 <<98, 99>>)
    /\ UNCHANGED <<xRetry, xInitDone, xChunk, xBitstream, xConfigData, xDone,
                   xResult, xStatus>>

\* steps 10 and 11: toggleClk(2000), goTestLogicReset
XStartup ==
    /\ xPc = "startup"
    /\ LET x1 == xToggleClk(XNow, StartupClocks)
           x2 == goTestLogicReset(x1)
       IN  XStep("verify", x2,
                 <<OpRec("toggleClk", StartupClocks, FALSE, XNow, x1, <<>>, 0),
                   OpRec("reset", 0, FALSE, x1, x2, <<>>, 0)>>, <<98, 99>>)
    /\ UNCHANGED <<xRetry, xInitDone, xChunk, xBitstream, xConfigData, xDone,
                   xResult, xStatus>>

\* step 12: shiftIR(BYPASS, true), the DONE bit, reportProgress(100), return
XVerify ==
    \E status \in VerifyStatus :
        /\ xPc = "verify"
        /\ LET x == xShiftIR(XNow, TRUE, "RUN_TEST_IDLE")
           IN  XStep("returned", x,
                     <<OpRec("shiftIR", IrBypass, TRUE, XNow, x, <<>>, status)>>,
                     <<100>>)
        /\ xDone' = (status \div 32) % 2
        /\ xResult' = "true"
        /\ UNCHANGED <<xRetry, xInitDone, xChunk, xBitstream, xConfigData, xStatus>>

\* programBitDevice after programSRAM has returned
XShowStatus ==
    /\ xPc = "returned"
    /\ xPc' = "shown"
    /\ xStatus' = "success"
    /\ UNCHANGED <<xState, xFtdi, xOps, xProgress, xRetry, xInitDone, xChunk,
                   xBitstream, xConfigData, xDone, xResult, nonXilinxVars>>

XilinxInit == PathIdle /\ EngineIdle /\ AdapterIdle /\ MpsseIdle /\ XilinxIdle /\ RunIdle /\ ReadIdle /\ PureIdle

XilinxNext ==
    \/ XStart
    \/ XReset
    \/ XJprogram
    \/ XPoll
    \/ XMemClear
    \/ XCfgIn
    \/ XChunk
    \/ XJstart
    \/ XStartup
    \/ XVerify
    \/ XShowStatus

SpecXilinx == XilinxInit /\ [][XilinxNext]_vars

-----------------------------------------------------------------------------
(* flushAndRead draining the IN endpoint of the FTDI device *)

PacketSize == 64
PacketPayload == 62
MaxReadSize == 512
MaxReadRetries == 100
MaxRead == 130

\* the two modem status bytes the device puts at the start of every IN packet
FtdiStatus == <<50, 96>>

\* the k bytes the device has to deliver
ReadPayload(k) == [i \in 1..k |-> (5 * i + 1) % 256]

\* one IN transfer: the device has sent the first `sent` payload bytes, has at
\* most `burst` more ready, and packs them into 64-byte packets, as many
\* whole packets as the requested length holds
DeviceTransfer(payload, sent, readSize, burst) ==
    LET count == Min(Min(burst, Len(payload) - sent),
                     (readSize \div PacketSize) * PacketPayload)
        packets == Max(1, CeilDiv(count, PacketPayload))
    IN  [p \in 1..(count + 2 * packets) |->
            LET q == (p - 1) \div PacketSize
                o == (p - 1) % PacketSize
            IN  IF o < 2 THEN FtdiStatus[o + 1]
                ELSE payload[sent + q * PacketPayload + o - 1]]

\* payload bytes carried by a transfer of that many bytes
PayloadIn(len) == len - 2 * Max(1, CeilDiv(len, PacketSize))

\* the read loop of flushAndRead against that device
RECURSIVE ReadLoop(_, _, _, _, _, _, _)
ReadLoop(expectedBytes, payload, burst, idle, result, retries, sent) ==
    LET remaining == expectedBytes - Len(result)
    IN  IF remaining > 0 /\ retries < MaxReadRetries
        THEN LET readSize == Min(MaxReadSize, remaining + 64)
                 responseData == IF idle > 0 THEN FtdiStatus
                                 ELSE DeviceTransfer(payload, sent, readSize, burst)
                 take == Min(Len(responseData) - 2, remaining)
             IN  IF Len(responseData) > 2
                 THEN ReadLoop(expectedBytes, payload, burst, idle,
                               result \o SubSeq(responseData, 3, 2 + take),
                               retries, sent + PayloadIn(Len(responseData)))
                 ELSE IF idle = 0
                      \* the device has nothing more to send: every further
                      \* read is status only until the retries run out
                      THEN result
                      ELSE ReadLoop(expectedBytes, payload, burst, idle - 1,
                                    result, retries + 1, sent)
        ELSE result

flushAndReadData(expectedBytes, payload, burst, idle) ==
    ReadLoop(expectedBytes, payload, burst, idle, <<>>, 0, 0)

ReadCounts == {1, 2, 61, 62, 63, 64, 100, MaxRead}
Bursts == {7, 31, 62, 124, 512}
IdleReads == {0, 3}

ReadInit ==
    /\ PathIdle /\ EngineIdle /\ AdapterIdle /\ MpsseIdle /\ XilinxIdle /\ RunIdle
    /\ PureIdle
    /\ rdK \in ReadCounts
    /\ rdBurst \in Bursts
    /\ rdIdle \in IdleReads
    /\ rdLen = 0
    /\ rdLast = FALSE
    /\ rdPattern = 0
    /\ rdData = <<>>
    /\ rdTdo = <<>>
    /\ rdDone = FALSE

FlushAndRead ==
    /\ ~rdDone
    /\ rdData' = flushAndReadData(rdK, ReadPayload(rdK), rdBurst, rdIdle)
    /\ rdDone' = TRUE
    /\ UNCHANGED <<rdK, rdBurst, rdIdle, rdLen, rdLast, rdPattern, rdTdo>>
    /\ UNCHANGED nonReadVars

SpecFlushRead == ReadInit /\ [][FlushAndRead]_vars

-----------------------------------------------------------------------------
(* writeTDI with read-back against a device that samples TDO on every edge *)

MaxTdoBits == 20
LongRead == 8 * PacketSize

\* TDO on clock edge i (from 0) of waveform p
TdoSample(p, i) ==
    CASE p = 0 -> i % 2
      [] p = 1 -> IF (i * i + (i \div 5)) % 3 = 0 THEN 1 ELSE 0
      [] OTHER -> 1 - ((i \div 3) % 2)

\* what the MPSSE engine answers to the commands in `bytes` from position pos,
\* edge being the number of clock edges made so far: a byte command with
\* DO_READ answers its bytes, LSB first; a bit or TMS command of n bits with
\* DO_READ answers one byte whose top n bits are the samples, oldest lowest,
\* over whatever was in the shift register before (here ones)
RECURSIVE DeviceReply(_, _, _, _)
DeviceReply(bytes, pos, edge, p) ==
    IF pos > Len(bytes) THEN <<>>
    ELSE LET cmd == bytes[pos]
             read == (cmd \div MpsseDoRead) % 2 = 1
             bitwise == (cmd \div MpsseWriteTms) % 2 = 1 \/ (cmd \div MpsseBitmode) % 2 = 1
         IN  IF cmd = SendImmediate THEN DeviceReply(bytes, pos + 1, edge, p)
             ELSE IF bitwise
             THEN LET n == bytes[pos + 1] + 1
                      RECURSIVE top(_)
                      top(j) == IF j = n THEN 0
                                ELSE TdoSample(p, edge + j) * Pow2(8 - n + j) + top(j + 1)
                      answer == top(0) + Pow2(8 - n) - 1
                  IN  (IF read THEN <<answer>> ELSE <<>>)
                          \o DeviceReply(bytes, pos + 3, edge + n, p)
             ELSE LET n == bytes[pos + 1] + 256 * bytes[pos + 2] + 1
                      RECURSIVE pack(_, _)
                      pack(b, j) == IF j = 8 THEN 0
                                    ELSE TdoSample(p, edge + 8 * b + j) * Pow2(j)
                                         + pack(b, j + 1)
                  IN  (IF read THEN [b \in 1..n |-> pack(b - 1, 0)] ELSE <<>>)
                          \o DeviceReply(bytes, pos + 3 + n, edge + 8 * n, p)

\* the copy from readData into the caller's tdo buffer of tdoLen zero bytes
decodeTdo(readData, tdoLen, bitLen, lastBitWithTMS) ==
    LET originalRealLen == IF lastBitWithTMS THEN bitLen - 1 ELSE bitLen
        originalNumBytes == originalRealLen \div 8
        originalNumBits == originalRealLen % 8
        wasConvertedToBits == originalNumBytes = 1 /\ originalNumBits = 0
                              /\ ~lastBitWithTMS
        copied == IF wasConvertedToBits
                  THEN (IF 0 < Len(readData) /\ 0 < tdoLen THEN 1 ELSE 0)
                  ELSE Min(Min(originalNumBytes, Len(readData)), tdoLen)
        hasBits == ~wasConvertedToBits /\ originalNumBits > 0 /\ copied < Len(readData)
        bitByte == IF hasBits THEN readData[copied + 1] \div Pow2(8 - originalNumBits)
                   ELSE 0
        readIdx == copied + (IF hasBits THEN 1 ELSE 0)
        hasLast == lastBitWithTMS /\ readIdx < Len(readData)
        lastBit == IF hasLast THEN (readData[readIdx + 1] \div 128) % 2 ELSE 0
        lastBitPos == IF originalNumBits > 0 THEN originalNumBits ELSE 0
        merged == IF BitOf(bitByte, lastBitPos) = 1 THEN bitByte
                  ELSE bitByte + lastBit * Pow2(lastBitPos)
    IN  [w \in 1..tdoLen |->
            IF w <= copied THEN readData[w]
            ELSE IF w = copied + 1 THEN merged
            ELSE 0]

TdoLens == (1..MaxTdoBits) \cup {LongRead}
Waveforms == {0, 1, 2}
TdoBursts == {PacketPayload, 2 * PacketPayload}

ReadBackInit ==
    /\ PathIdle /\ EngineIdle /\ AdapterIdle /\ MpsseIdle /\ XilinxIdle /\ RunIdle
    /\ PureIdle
    /\ rdLen \in TdoLens
    /\ rdLast \in BOOLEAN
    /\ rdPattern \in Waveforms
    /\ rdBurst \in TdoBursts
    /\ rdK = 0
    /\ rdIdle = 0
    /\ rdData = <<>>
    /\ rdTdo = <<>>
    /\ rdDone = FALSE

\* writeTDI(tdi, tdo, bitLen, lastBitWithTMS) on a fresh adapter, tdo a new
\* Uint8Array of ceil(bitLen / 8) bytes
WriteTdiRead ==
    /\ ~rdDone
    /\ LET m == writeTDI([buffer |-> <<>>, readPending |-> 0, log |-> <<>>],
                         TdiBytes(rdLen), TRUE, rdLen, rdLast)
           expectedBytes == m.log[Len(m.log)].n
           reply == DeviceReply(OutBytes(m.log), 1, 0, rdPattern)
           readData == flushAndReadData(expectedBytes, reply, rdBurst, 0)
       IN  /\ rdK' = expectedBytes
           /\ rdData' = readData
           /\ rdTdo' = decodeTdo(readData, CeilDiv(rdLen, 8), rdLen, rdLast)
    /\ rdDone' = TRUE
    /\ UNCHANGED <<rdBurst, rdIdle, rdLen, rdLast, rdPattern>>
    /\ UNCHANGED nonReadVars

SpecReadBack == ReadBackInit /\ [][WriteTdiRead]_vars

-----------------------------------------------------------------------------
(* bitReverse and parseHexData exercised as functions *)

MaxRevLen == 3
MaxHexDigits == 5

MachinesIdle ==
    /\ PathIdle /\ EngineIdle /\ AdapterIdle /\ MpsseIdle /\ XilinxIdle
    /\ RunIdle /\ ReadIdle

\* every byte value at every length up to MaxRevLen
RevInputs == {[i \in 1..len |-> (b + 37 * (i - 1)) % 256] : len \in 0..MaxRevLen, b \in 0..255}

RevInit ==
    /\ MachinesIdle /\ HexIdle /\ ConnIdle /\ StallIdle /\ SetIdle /\ BitIdle /\ SvfIdle
    /\ rvData \in RevInputs
    /\ rvOnce = <<>>
    /\ rvTwice = <<>>
    /\ rvDone = FALSE

BitReverseTwice ==
    /\ ~rvDone
    /\ rvOnce' = bitReverse(rvData)
    /\ rvTwice' = bitReverse(bitReverse(rvData))
    /\ rvDone' = TRUE
    /\ UNCHANGED <<rvData, hexVars, connVars, stallVars, setVars, bitVars, svfVars, machineVars>>

SpecReverse == RevInit /\ [][BitReverseTwice]_vars

\* parseHexData: hexStr the digits of the literal once parentheses and white
\* space are removed, most significant digit first
parseHexData(hexStr, bitLength) ==
    IF Len(hexStr) = 0 THEN Fill(CeilDiv(bitLength, 8), 0)
    ELSE LET padded == IF Len(hexStr) % 2 # 0 THEN <<0>> \o hexStr ELSE hexStr
             providedBytes == Len(padded) \div 2
             targetBytes == CeilDiv(bitLength, 8)
             byteLength == Max(providedBytes, targetBytes)
         IN  [i \in 1..byteLength |->
                 IF i <= providedBytes
                 THEN LET hexIndex == Len(padded) - 2 - (i - 1) * 2
                      IN  16 * padded[hexIndex + 1] + padded[hexIndex + 2]
                 ELSE 0]

HexFields == {"TDI", "TDO", "MASK", "SMASK"}
HexLiterals ==
    {[k \in 1..d |-> (3 * k + s) % 16] : d \in 1..MaxHexDigits, s \in 0..3}
        \cup {<<>>, <<5, 6, 7, 15, 0, 0, 0, 0, 0, 0, 0, 0>>}

HexInit ==
    /\ MachinesIdle /\ RevIdle /\ ConnIdle /\ StallIdle /\ SetIdle /\ BitIdle /\ SvfIdle
    /\ hxLen \in (1..MaxShiftLen) \cup {48}
    /\ hxField \in HexFields
    /\ hxHex \in HexLiterals
    /\ hxBytes = <<>>
    /\ hxDone = FALSE

\* parseShift of "SIR n FIELD (literal);"
ParseShift ==
    /\ ~hxDone
    /\ hxBytes' = parseHexData(hxHex, hxLen)
    /\ hxDone' = TRUE
    /\ UNCHANGED <<hxLen, hxField, hxHex, revVars, connVars, stallVars, setVars, bitVars, svfVars, machineVars>>

SpecParse == HexInit /\ [][ParseShift]_vars

-----------------------------------------------------------------------------
(* connect() of the two adapters: the USB requests of the initialization *)

MaxDrainReads == 10
MaxFailures == 2

\* the requests of USBBlasterII.connect with initMESSP, in program order; the
\* drain loop reads until a transfer carries no payload, at most ten times
LegacySteps(drain) ==
    <<"OPEN", "CLAIM", "SIO_RESET", "PURGE_RX", "PURGE_TX", "SET_LATENCY">>
        \o Fill(Min(drain + 1, MaxDrainReads), "IN") \o <<"FLUSH">>

\* the requests initMESSP wraps in a try block of their own
LegacyCaught == {"SIO_RESET", "PURGE_RX", "PURGE_TX", "SET_LATENCY", "IN", "FLUSH"}

\* the requests of DigilentFTDI.connect: ftdiReset, setMPSSEMode, configureMPSSE
MpsseSteps ==
    <<"OPEN", "CLAIM", "SIO_RESET", "PURGE_RX", "PURGE_TX",
      "MODE_RESET", "SET_BITMODE", "SET_LATENCY", "IN", "CONFIGURE">>

\* only the read after the mode switch is inside a try block
MpsseCaught == {"IN"}

\* a read that throws leaves the drain loop: the first request after it
AfterDrain(steps, k) ==
    IF \E j \in (k + 1)..Len(steps) : steps[j] # "IN"
    THEN CHOOSE j \in (k + 1)..Len(steps) :
             steps[j] # "IN" /\ \A m \in (k + 1)..(j - 1) : steps[m] = "IN"
    ELSE Len(steps) + 1

\* the requests issued up to and including the first whose failure is thrown
RECURSIVE IssueFrom(_, _, _, _)
IssueFrom(steps, k, fail, caught) ==
    IF k > Len(steps) THEN <<>>
    ELSE IF steps[k] \in fail
         THEN IF steps[k] \in caught
              THEN <<<<steps[k], FALSE>>>>
                       \o IssueFrom(steps, IF steps[k] = "IN" THEN AfterDrain(steps, k) ELSE k + 1,
                                    fail, caught)
              ELSE <<<<steps[k], FALSE>>>>
         ELSE <<<<steps[k], TRUE>>>> \o IssueFrom(steps, k + 1, fail, caught)

ConnInit ==
    /\ MachinesIdle /\ RevIdle /\ HexIdle /\ StallIdle /\ SetIdle /\ BitIdle /\ SvfIdle
    /\ cnAdapter \in {"USBBlasterII", "DigilentFTDI"}
    /\ cnFail \in {f \in SUBSET {"OPEN", "CLAIM", "SIO_RESET", "PURGE_RX", "PURGE_TX",
                                  "MODE_RESET", "SET_BITMODE", "SET_LATENCY", "IN",
                                  "FLUSH", "CONFIGURE"} : Cardinality(f) <= MaxFailures}
    /\ cnDrain \in {0, 1, MaxDrainReads}
    /\ cnLog = <<>>
    /\ cnWarn = <<>>
    /\ cnResult = "none"
    /\ cnDone = FALSE

Settle(log, caught) ==
    /\ cnLog' = log
    /\ cnWarn' = SelectSeq([k \in 1..Len(log) |-> IF log[k][2] THEN "" ELSE log[k][1]],
                           LAMBDA w : w \in caught \ {"IN"})
    /\ cnResult' = IF \E k \in 1..Len(log) : ~log[k][2] /\ log[k][1] \notin caught
                   THEN "error" ELSE "connected"
    /\ cnDone' = TRUE
    /\ UNCHANGED <<cnAdapter, cnFail, cnDrain, revVars, hexVars, stallVars, setVars, bitVars, svfVars, machineVars>>

\* USBBlasterII.connect
ConnectLegacy ==
    /\ ~cnDone
    /\ cnAdapter = "USBBlasterII"
    /\ Settle(IssueFrom(LegacySteps(cnDrain), 1, cnFail, LegacyCaught), LegacyCaught)

\* DigilentFTDI.connect
ConnectMpsse ==
    /\ ~cnDone
    /\ cnAdapter = "DigilentFTDI"
    /\ Settle(IssueFrom(MpsseSteps, 1, cnFail, MpsseCaught), MpsseCaught)

ConnNext == ConnectLegacy \/ ConnectMpsse

SpecConnect == ConnInit /\ [][ConnNext]_vars

-----------------------------------------------------------------------------
(* flushAndRead on a link that rejects or stalls the bulk OUT, or whose device
   goes silent before it has delivered the bytes asked for *)

MaxStallRead == 6

StallInit ==
    /\ MachinesIdle /\ RevIdle /\ HexIdle /\ ConnIdle /\ SetIdle /\ BitIdle /\ SvfIdle
    /\ stK \in 1..MaxStallRead
    /\ stAvail \in 0..stK
    /\ stBurst \in {1, 2, PacketPayload}
    /\ stOut \in {"ok", "reject", "stall"}
    /\ stData = <<>>
    /\ stOutcome = "none"

\* flushAndRead(expectedBytes): transferOut is awaited with no timeout, so a
\* rejected transfer throws and a stalled one never settles; the read loop
\* gives up after MaxReadRetries status-only transfers and returns what it has
FlushAndReadFaulty ==
    /\ stOutcome = "none"
    /\ stOutcome' = CASE stOut = "reject" -> "error"
                      [] stOut = "stall" -> "hung"
                      [] OTHER -> "returned"
    /\ stData' = IF stOut = "ok"
                 THEN flushAndReadData(stK, ReadPayload(stAvail), stBurst, 0)
                 ELSE stData
    /\ UNCHANGED <<stK, stAvail, stBurst, stOut, revVars, hexVars, connVars, setVars, bitVars, svfVars, machineVars>>

SpecStall == StallInit /\ [][FlushAndReadFaulty]_vars

-----------------------------------------------------------------------------
(* XilinxJTAG.setState called from every tracked state for every target *)

\* the name the transition table of the SVF engine gives to a state of STATES
TapName ==
    [s \in XStates |->
        CASE s = "TEST_LOGIC_RESET" -> "RESET"
          [] s = "RUN_TEST_IDLE" -> "IDLE"
          [] s = "SELECT_DR_SCAN" -> "DRSELECT"
          [] s = "CAPTURE_DR" -> "DRCAPTURE"
          [] s = "SHIFT_DR" -> "DRSHIFT"
          [] s = "EXIT1_DR" -> "DREXIT1"
          [] s = "PAUSE_DR" -> "DRPAUSE"
          [] s = "EXIT2_DR" -> "DREXIT2"
          [] s = "UPDATE_DR" -> "DRUPDATE"
          [] s = "SELECT_IR_SCAN" -> "IRSELECT"
          [] s = "CAPTURE_IR" -> "IRCAPTURE"
          [] s = "SHIFT_IR" -> "IRSHIFT"
          [] s = "EXIT1_IR" -> "IREXIT1"
          [] s = "PAUSE_IR" -> "IRPAUSE"
          [] s = "EXIT2_IR" -> "IREXIT2"
          [] s = "UPDATE_IR" -> "IRUPDATE"]

\* a walk that is a function of (this.state, targetState) and has not arrived
\* after as many turns as there are states has met a state twice and never ends
SetStateTurns == Cardinality(XStates)

\* the while loop of setState, turn by turn: this.state after each turn and the
\* TMS bit pushed in it, given up once the loop is known not to end
RECURSIVE SetStateLoop(_, _, _, _, _)
SetStateLoop(state, targetState, tmsSeq, path, turns) ==
    IF state = targetState
    THEN [state |-> state, tms |-> tmsSeq, path |-> path, ended |-> TRUE]
    ELSE IF turns = 0
    THEN [state |-> state, tms |-> tmsSeq, path |-> path, ended |-> FALSE]
    ELSE LET step == SetStateStep(state, targetState)
         IN  SetStateLoop(step[2], targetState, Append(tmsSeq, step[1]),
                          Append(path, step[2]), turns - 1)

SetInit ==
    /\ MachinesIdle /\ RevIdle /\ HexIdle /\ ConnIdle /\ StallIdle /\ BitIdle /\ SvfIdle
    /\ ssFrom \in XStates
    /\ ssTo \in XStates
    /\ ssTms = <<>>
    /\ ssPath = <<>>
    /\ ssState = ssFrom
    /\ ssEnded = FALSE
    /\ ssDone = FALSE

\* await setState(ssTo) with this.state = ssFrom: the bits handed to
\* ftdi.writeTMS (none when the sequence is empty) and this.state on return
SetStateCall ==
    /\ ~ssDone
    /\ LET walk == SetStateLoop(ssFrom, ssTo, <<>>, <<>>, SetStateTurns)
           x == IF walk.ended
                THEN setState([state |-> ssFrom, ftdi |-> <<>>], ssTo)
                ELSE [state |-> walk.state, ftdi |-> <<>>]
       IN  /\ ssEnded' = walk.ended
           /\ ssPath' = walk.path
           /\ ssState' = x.state
           /\ ssTms' = IF x.ftdi = <<>> THEN <<>> ELSE x.ftdi[1].tms
    /\ ssDone' = TRUE
    /\ UNCHANGED <<ssFrom, ssTo, revVars, hexVars, connVars, stallVars, bitVars, svfVars, machineVars>>

SpecSetState == SetInit /\ [][SetStateCall]_vars

-----------------------------------------------------------------------------
(* loadBitFile and the payload extraction of programBitDevice *)

ScanLimit == 500
TagA == 97
TagB == 98
TagC == 99
TagD == 100
TagE == 101
MaxBitData == 3

\* (data[i] << 8) | data[i + 1]; a byte past the end reads as undefined and
\* counts as 0
U16(data, i) == At(data, i) * 256 + At(data, i + 1)

\* (data[i] << 24) | (data[i+1] << 16) | (data[i+2] << 8) | data[i+3], a signed
\* 32-bit value
S32(data, i) ==
    LET top == IF At(data, i) >= 128 THEN At(data, i) - 256 ELSE At(data, i)
    IN  top * 16777216 + At(data, i + 1) * 65536 + At(data, i + 2) * 256 +
        At(data, i + 3)

\* Uint8Array.prototype.slice(start, end) for start >= 0
Slice(data, start, end) ==
    LET e == IF end < 0 THEN Max(Len(data) + end, 0) ELSE Min(end, Len(data))
        b == Min(start, Len(data))
    IN  IF b < e THEN SubSeq(data, b + 1, e) ELSE <<>>

NoInfo == [dataOffset |-> <<>>, dataLength |-> <<>>, fields |-> <<>>]

\* the while loop of parseBitHeader from `offset` on; info.fields lists the
\* tag and the string bytes of each of the fields a to d in the order met
RECURSIVE ParseFields(_, _, _)
ParseFields(data, offset, info) ==
    IF ~(offset < Min(Len(data), ScanLimit)) THEN info
    ELSE LET tag == At(data, offset)
             at == offset + 1
         IN  IF tag \in {TagA, TagB, TagC, TagD}
             THEN LET len == U16(data, at)
                      str == Slice(data, at + 2, at + 2 + len - 1)
                  IN  ParseFields(data, at + 2 + len,
                                  [info EXCEPT !.fields = Append(@, <<tag, str>>)])
             ELSE IF tag = TagE
             THEN [info EXCEPT !.dataOffset = <<at + 4>>,
                               !.dataLength = <<S32(data, at)>>]
             ELSE info

parseBitHeader(data) ==
    LET headerLen == U16(data, 0)
    IN  ParseFields(data, 2 + headerLen + 2, NoInfo)

\* programBitDevice: configData is the slice the header names, or the file
ConfigDataOf(bitData, bitInfo) ==
    IF bitInfo.dataOffset # <<>> /\ bitInfo.dataOffset[1] # 0
    THEN Slice(bitData, bitInfo.dataOffset[1],
               bitInfo.dataOffset[1] + bitInfo.dataLength[1])
    ELSE bitData

\* a tagged string field: tag, 2-byte length, the string and its NUL
StrField(tag, len) ==
    <<tag, len \div 256, len % 256>> \o Fill(len - 1, 120) \o <<0>>

\* a .bit file as the vendor tools write it: the 9-byte first field, the
\* second field 00 01, the fields a to d, the e field with the payload, and
\* `extra` bytes after it
BitFile(aLen, bLen, payload, extra) ==
    <<0, 9, 15, 240, 15, 240, 15, 240, 15, 240, 0, 0, 1>> \o
    StrField(TagA, aLen) \o StrField(TagB, bLen) \o
    StrField(TagC, 11) \o StrField(TagD, 9) \o
    <<TagE, 0, 0, Len(payload) \div 256, Len(payload) % 256>> \o payload \o
    Fill(extra, 255)

\* design-name lengths: short ones, the two that put the e tag on the last
\* offset the scan reads and on the first it does not, and a long one
NameLens == {1, 8, ScanLimit - 54, ScanLimit - 53, ScanLimit}

\* a raw payload as the vendor tools write it: dummy pad words, then the data
RawFile(payload) == Fill(4, 255) \o payload

BitInputs ==
    {[kind |-> "bit", file |-> BitFile(a, b, PayloadOf(n), x), payload |-> PayloadOf(n)] :
        a \in NameLens, b \in {1, 8}, n \in 0..MaxBitData, x \in {0, 1}}
    \cup
    {[kind |-> "raw", file |-> RawFile(PayloadOf(n)), payload |-> RawFile(PayloadOf(n))] :
        n \in 0..MaxBitData}

BitInit ==
    /\ MachinesIdle /\ RevIdle /\ HexIdle /\ ConnIdle /\ StallIdle /\ SetIdle /\ SvfIdle
    /\ \E f \in BitInputs :
           /\ bfKind = f.kind
           /\ bfFile = f.file
           /\ bfPayload = f.payload
    /\ bfInfo = NoInfo
    /\ bfConfig = <<>>
    /\ bfDone = FALSE

\* loadBitFile parses the header of the chosen file, then the program button
\* is clicked and programBitDevice extracts configData
LoadAndExtract ==
    /\ ~bfDone
    /\ bfInfo' = parseBitHeader(bfFile)
    /\ bfConfig' = ConfigDataOf(bfFile, bfInfo')
    /\ bfDone' = TRUE
    /\ UNCHANGED <<bfKind, bfFile, bfPayload, revVars, hexVars, connVars, stallVars,
                   setVars, svfVars, machineVars>>

SpecBitFile == BitInit /\ [][LoadAndExtract]_vars

-----------------------------------------------------------------------------
(* SVFParser.parse on texts over a small alphabet: a word character, the
   blank, the semicolon, the comment mark and the line break *)

MaxSvfLen == 5

SvfChars == {"w", " ", ";", "!", "\n"}

\* String.prototype.split(sep) for a one-character separator
Split(text, sep) ==
    LET RECURSIVE go(_, _, _)
        go(i, cur, acc) ==
            IF i > Len(text) THEN Append(acc, cur)
            ELSE IF text[i] = sep THEN go(i + 1, <<>>, Append(acc, cur))
            ELSE go(i + 1, Append(cur, text[i]), acc)
    IN  go(1, <<>>, <<>>)

\* String.prototype.trim()
Trim(text) ==
    LET inked == {i \in 1..Len(text) : text[i] \notin {" ", "\n"}}
    IN  IF inked = {} THEN <<>>
        ELSE SubSeq(text, CHOOSE i \in inked : \A j \in inked : i <= j,
                          CHOOSE i \in inked : \A j \in inked : i >= j)

\* String.prototype.toUpperCase()
ToUpperCase(text) == [i \in 1..Len(text) |-> IF text[i] = "w" THEN "W" ELSE text[i]]

\* text.split(/\s+/): the runs between runs of blanks; one empty token for the
\* empty text
SplitBlanks(text) ==
    LET RECURSIVE go(_, _, _)
        go(i, cur, acc) ==
            IF i > Len(text) THEN Append(acc, cur)
            ELSE IF text[i] \in {" ", "\n"}
            THEN IF i > 1 /\ text[i - 1] \in {" ", "\n"} THEN go(i + 1, cur, acc)
                 ELSE go(i + 1, <<>>, Append(acc, cur))
            ELSE go(i + 1, Append(cur, text[i]), acc)
    IN  go(1, <<>>, <<>>)

\* parseCommand for a statement whose first token is none of the names of the
\* switch: the trailing semicolon removed, the text trimmed, the default branch
parseCommand(cmdText) ==
    LET unterminated == IF cmdText # <<>> /\ cmdText[Len(cmdText)] = ";"
                        THEN SubSeq(cmdText, 1, Len(cmdText) - 1) ELSE cmdText
        text == Trim(unterminated)
        tokens == SplitBlanks(text)
    IN  [type |-> ToUpperCase(tokens[1]), raw |-> text]

\* the for loop of parse over lines[k..]
RECURSIVE ParseLines(_, _, _, _)
ParseLines(lines, k, currentCommand, commands) ==
    IF k > Len(lines) THEN commands
    ELSE LET line == Trim(Split(lines[k], "!")[1])
             joined == currentCommand \o <<" ">> \o line
         IN  IF line = <<>> THEN ParseLines(lines, k + 1, currentCommand, commands)
             ELSE IF line[Len(line)] = ";"
             THEN ParseLines(lines, k + 1, <<>>,
                             Append(commands, parseCommand(Trim(joined))))
             ELSE ParseLines(lines, k + 1, joined, commands)

parse(svfText) == ParseLines(Split(svfText, "\n"), 1, <<>>, <<>>)

RECURSIVE SvfTexts(_)
SvfTexts(n) ==
    IF n = 0 THEN {<<>>}
    ELSE LET shorter == SvfTexts(n - 1)
         IN  shorter \cup {Append(t, c) : t \in {u \in shorter : Len(u) = n - 1},
                                          c \in SvfChars}

SvfInit ==
    /\ MachinesIdle /\ RevIdle /\ HexIdle /\ ConnIdle /\ StallIdle /\ SetIdle /\ BitIdle
    /\ svText \in SvfTexts(MaxSvfLen)
    /\ svCommands = <<>>
    /\ svDone = FALSE

\* loadSVFFile: this.svfCommands = parser.parse(this.svfData)
ParseFile ==
    /\ ~svDone
    /\ svCommands' = parse(svText)
    /\ svDone' = TRUE
    /\ UNCHANGED <<svText, revVars, hexVars, connVars, stallVars, setVars, bitVars,
                   machineVars>>

SpecSvfParse == SvfInit /\ [][ParseFile]_vars

-----------------------------------------------------------------------------
(* programDevice: the SVF command loop with a request that may throw *)

MaxCmds == 10
MaxLoads == 1
MaxConnects == 1

\* what a division by the length of an empty list gives: above every percent
Infinity == 100 * MaxCmds + 1

\* Math.round(((i + 1) / this.svfCommands.length) * 100)
Percent(i, len) == IF len = 0 THEN Infinity ELSE RoundDiv(100 * (i + 1), len)

\* programDevice or a handler is suspended at an await on a USB transfer of
\* the run: only there can another handler of the page run
Suspended == runPc \in {"reset", "exec"}

RunStep(pc, reqs, percents) ==
    /\ runPc' = pc
    /\ runReqs' = runReqs \o reqs
    /\ runProgress' = runProgress \o percents
    /\ UNCHANGED nonRunVars

\* the button handler is entered with a parsed file of n commands; it
\* disables the button, builds the engine and calls jtag.reset(), which issues
\* its first transfer
RunStart ==
    \E n \in 0..MaxCmds :
        /\ runPc = "idle"
        /\ runCmds' = n
        /\ runStartCmds' = n
        /\ usbLog' = <<<<"run", "RESET">>>>
        /\ RunStep("reset", <<>>, <<>>)
        /\ programBtnDisabled' = TRUE
        /\ UNCHANGED <<runI, runFailAt, runStatus, runList, runExecd, cancelled, cancelMark>>

\* await jtag.reset() returns
RunReset ==
    /\ runPc = "reset"
    /\ RunStep("loop", <<-1>>, <<>>)
    /\ UNCHANGED <<runCmds, runI, runFailAt, runStatus, runList, runStartCmds, runExecd,
                   usbLog, cancelled, cancelMark, programBtnDisabled>>

\* jtag.reset() throws: the catch block
RunResetFail ==
    /\ runPc = "reset"
    /\ runFailAt' = -1
    /\ runStatus' = "error"
    /\ RunStep("done", <<-1>>, <<>>)
    /\ programBtnDisabled' = FALSE
    /\ UNCHANGED <<runCmds, runI, runList, runStartCmds, runExecd, usbLog, cancelled, cancelMark>>

\* the loop test passes: cmd = this.svfCommands[i], executeCommand(cmd) is
\* called and issues its transfer
RunFetch ==
    /\ runPc = "loop"
    /\ runI < runCmds
    /\ runExecd' = Append(runExecd, <<runList, runI>>)
    /\ usbLog' = Append(usbLog, <<"run", "COMMAND">>)
    /\ RunStep("exec", <<runI>>, <<>>)
    /\ UNCHANGED <<runCmds, runI, runFailAt, runStatus, runList, runStartCmds, cancelled, cancelMark, programBtnDisabled>>

\* executeCommand returns: the bar is updated, i++
RunExec ==
    /\ runPc = "exec"
    /\ runI' = runI + 1
    /\ RunStep("loop", <<>>, <<Percent(runI, runCmds)>>)
    /\ UNCHANGED <<runCmds, runFailAt, runStatus, runList, runStartCmds, runExecd, usbLog,
                   cancelled, cancelMark, programBtnDisabled>>

\* an iteration whose failure is logged and the loop goes on
RunExecFailContinue ==
    /\ runPc = "exec"
    /\ runFailAt' = runI
    /\ runStatus' = "error"
    /\ runI' = runI + 1
    /\ RunStep("loop", <<>>, <<>>)
    /\ UNCHANGED <<runCmds, runList, runStartCmds, runExecd, usbLog, cancelled, cancelMark, programBtnDisabled>>

\* executeCommand throws: the catch block
RunExecFail ==
    /\ runPc = "exec"
    /\ runFailAt' = runI
    /\ runStatus' = "error"
    /\ RunStep("done", <<>>, <<>>)
    /\ programBtnDisabled' = FALSE
    /\ UNCHANGED <<runCmds, runI, runList, runStartCmds, runExecd, usbLog, cancelled, cancelMark>>

\* the loop test fails: the success status
RunComplete ==
    /\ runPc = "loop"
    /\ ~(runI < runCmds)
    /\ runStatus' = "success"
    /\ RunStep("done", <<>>, <<>>)
    /\ programBtnDisabled' = FALSE
    /\ UNCHANGED <<runCmds, runI, runFailAt, runList, runStartCmds, runExecd, usbLog,
                   cancelled, cancelMark>>

\* loadSVFFile: the file input's change event while the run is suspended; the
\* input is enabled by connectDevice and nothing disables it
LoadSVFFile ==
    \E m \in 0..MaxCmds :
        /\ Suspended
        /\ runList < MaxLoads
        /\ runList' = runList + 1
        /\ runCmds' = m
        /\ programBtnDisabled' = FALSE
        /\ UNCHANGED <<runPc, runI, runReqs, runProgress, runFailAt, runStatus, runStartCmds,
                       runExecd, usbLog, cancelled, cancelMark, nonRunVars>>

\* connectDevice: the connect button while the run is suspended, the user
\* choosing the device again; connect() and initMESSP issue their requests
ConnectDevice ==
    /\ Suspended
    /\ Cardinality({k \in 1..Len(usbLog) : usbLog[k] = <<"connect", "OPEN">>}) < MaxConnects
    /\ usbLog' = usbLog \o [k \in 1..Len(LegacySteps(0)) |-> <<"connect", LegacySteps(0)[k]>>]
    /\ UNCHANGED <<runPc, runCmds, runI, runReqs, runProgress, runFailAt, runStatus, runList,
                   runStartCmds, runExecd, cancelled, cancelMark, programBtnDisabled, nonRunVars>>

RunInit == PathIdle /\ EngineIdle /\ AdapterIdle /\ MpsseIdle /\ XilinxIdle /\ RunIdle /\ ReadIdle /\ PureIdle

RunNext ==
    \/ RunStart
    \/ RunReset
    \/ RunResetFail
    \/ RunFetch
    \/ RunExec
    \/ RunExecFail
    \/ RunComplete
    \/ LoadSVFFile
    \/ ConnectDevice

SpecRun == RunInit /\ [][RunNext]_vars

\* one programming run on the page: the BIT tab's or the SVF tab's
ProgressNext ==
    \/ runPc = "idle" /\ XilinxNext
    \/ xPc = "idle" /\ RunNext

SpecProgress == RunInit /\ [][ProgressNext]_vars

\* a cancel signal raised from outside while a top-level operation runs
RaiseCancel ==
    /\ ~cancelled
    /\ Suspended \/ xPc \notin {"idle", "returned", "shown"}
    /\ cancelled' = TRUE
    /\ cancelMark' = <<Len(runReqs), Len(xOps)>>
    /\ UNCHANGED <<runPc, runCmds, runI, runReqs, runProgress, runFailAt, runStatus, runList,
                   runStartCmds, runExecd, usbLog, programBtnDisabled, nonRunVars>>

CancelNext ==
    \/ ProgressNext
    \/ RaiseCancel

SpecCancel == RunInit /\ [][CancelNext]_vars

-----------------------------------------------------------------------------
(* Properties of the path search *)

\* the states reachable from s in at most k TCK edges
RECURSIVE ReachWithin(_, _)
ReachWithin(s, k) ==
    IF k = 0 THEN {s}
    ELSE LET r == ReachWithin(s, k - 1)
         IN  r \cup {TapStep(x, t) : x \in r, t \in {0, 1}}

\* the length of a shortest path from s1 to s2 in the transition graph
Dist(s1, s2) ==
    CHOOSE k \in 0..Cardinality(States) :
        /\ s2 \in ReachWithin(s1, k)
        /\ k > 0 => s2 \notin ReachWithin(s1, k - 1)

\* C1: for every ordered pair of TAP states the path found by findStatePath
\* leads from the first to the second through the transition table, its
\* length is the shortest-path distance, it is empty for equal states and it
\* is 0,1,0,0 from RESET to DRSHIFT.
Thm_C1 ==
    pathDone =>
        /\ TapRun(pathFrom, pathResult) = pathTo
        /\ Len(pathResult) = Dist(pathFrom, pathTo)
        /\ (pathFrom = pathTo => pathResult = <<>>)
        /\ (pathFrom = "RESET" /\ pathTo = "DRSHIFT" => pathResult = <<0, 1, 0, 0>>)

Wit_C1 ==
    /\ pathDone
    /\ pathFrom = "RESET"
    /\ pathTo = "DRSHIFT"
    /\ pathResult = <<0, 1, 0, 0>>

-----------------------------------------------------------------------------
(* Properties of the SVF TAP engine on the legacy adapter *)

ExecutorCmds == {"STATE", "SIR", "SDR", "RUNTEST"}

\* C2: once reset() has completed, after every executor command the tracked
\* state equals the state of the device TAP driven by the TMS values on the
\* wire.
Cex_C2 ==
    (resetDone /\ lastCmd.type \in ExecutorCmds) => currentState = realState

\* C3: after a SIR the tracked state is the stored IR end state, after an SDR
\* the stored DR end state.
Cex_C3 ==
    /\ lastCmd.type = "SIR" => currentState = endIRState
    /\ lastCmd.type = "SDR" => currentState = endDRState

\* the TAP started in `state` and clocked with tmsSeq[lo..hi]: the state it
\* ends in and the number of edges it took while in `shiftState`
RECURSIVE ShiftWalk(_, _, _, _, _)
ShiftWalk(state, tmsSeq, lo, hi, shiftState) ==
    IF lo > hi THEN [st |-> state, cnt |-> 0]
    ELSE IF lo = hi
    THEN [st |-> TapStep(state, tmsSeq[lo]),
          cnt |-> IF state = shiftState THEN 1 ELSE 0]
    ELSE LET mid == (lo + hi) \div 2
             left == ShiftWalk(state, tmsSeq, lo, mid, shiftState)
         IN  IF left.st \in States
             THEN LET right == ShiftWalk(left.st, tmsSeq, mid + 1, hi, shiftState)
                  IN  [st |-> right.st, cnt |-> left.cnt + right.cnt]
             ELSE left

\* edges of the last handler during which a TAP that started in the tracked
\* state was in shiftState
EdgesInShift(shiftState) ==
    LET tms == WireTms(calls)
    IN  ShiftWalk(prevState, tms, 1, Len(tms), shiftState).cnt

HdrLen(t) == IF hdrs[t] = <<>> THEN 0 ELSE hdrs[t][1]

\* C8: with a header or trailer installed, a SIR/SDR spends header length +
\* payload length + trailer length edges in the SHIFT state.
Cex_C8 ==
    /\ (lastCmd.type = "SIR" /\ lastCmd.hasTdi /\ HdrLen("HIR") + HdrLen("TIR") > 0)
        => EdgesInShift("IRSHIFT") = HdrLen("HIR") + lastCmd.length + HdrLen("TIR")
    /\ (lastCmd.type = "SDR" /\ lastCmd.hasTdi /\ HdrLen("HDR") + HdrLen("TDR") > 0)
        => EdgesInShift("DRSHIFT") = HdrLen("HDR") + lastCmd.length + HdrLen("TDR")

\* C9: reset() puts at least 5 edges with TMS=1 and then exactly one edge with
\* TMS=0 on the wire, which takes the device TAP from any state to RESET and
\* then to IDLE, and it leaves the tracked state IDLE.
Thm_C9 ==
    lastCmd.type = "reset" =>
        LET tms == WireTms(calls)
            n == Len(tms)
        IN  /\ n >= 6
            /\ tms[n] = 0
            /\ \A i \in 1..(n - 1) : tms[i] = 1
            /\ \A s \in States : TapRun(s, SubSeq(tms, 1, n - 1)) = "RESET"
            /\ realState = "IDLE"
            /\ currentState = "IDLE"

Wit_C9 ==
    /\ lastCmd.type = "reset"
    /\ prevState \notin {"RESET", "IDLE"}
    /\ currentState = "IDLE"
    /\ realState = "IDLE"

\* C10: moveToState to the current state makes no adapter call and keeps the
\* tracked state; to another of the 16 states it makes one shiftBits call
\* with the bits of findStatePath, TDI all 0 and no capture, and the tracked
\* state becomes the target.
Thm_C10 ==
    (lastCmd.type = "STATE" /\ lastCmd.target \in States) =>
        LET path == findStatePath(prevState, lastCmd.target)
        IN  IF lastCmd.target = prevState
            THEN /\ calls = <<>>
                 /\ WireEdges(WireOfCalls(calls)) = <<>>
                 /\ currentState = prevState
            ELSE /\ Len(calls) = 1
                 /\ calls[1].op = "shiftBits"
                 /\ calls[1].n = Len(path)
                 /\ calls[1].tms = path
                 /\ calls[1].tdi = Fill(Len(path), 0)
                 /\ ~calls[1].capture
                 /\ TmsOf(WireEdges(WireOfCalls(calls))) = path
                 /\ currentState = lastCmd.target

Wit_C10 ==
    /\ lastCmd.type = "STATE"
    /\ prevState = "DRPAUSE"
    /\ lastCmd.target = "IRSHIFT"
    /\ Len(calls) = 1
    /\ currentState = "IRSHIFT"

-----------------------------------------------------------------------------
(* Properties of the legacy adapter *)

\* C4: shiftBits(tdi, tms, n, capture) puts exactly n TCK rising edges on the
\* wire, the edge of bit i carrying tdi[i] and tms[i].
Cex_C4 ==
    adCall.op = "shiftBits" =>
        LET edges == WireEdges(adWire)
        IN  /\ Len(edges) = adCall.n
            /\ \A i \in 1..adCall.n : edges[i] = <<adCall.tdi[i], adCall.tms[i]>>

\* C5: shiftBytes(tdi, n) with n >= 1 puts exactly n TCK rising edges on the
\* wire; the first n-1 carry TMS=0 and the last TMS=1, and edge i carries bit
\* i of tdi taken least significant bit first within each byte.
Thm_C5 ==
    (adCall.op = "shiftBytes" /\ adCall.n >= 1) =>
        LET edges == WireEdges(adWire)
            n == adCall.n
        IN  /\ Len(edges) = n
            /\ \A i \in 1..n :
                   edges[i] = <<BitOf(At(adCall.tdi, (i - 1) \div 8), (i - 1) % 8),
                                IF i = n THEN 1 ELSE 0>>

Wit_C5 ==
    /\ adCall.op = "shiftBytes"
    /\ adCall.n = LongBits
    /\ adCall.tdi[2] = 85
    /\ Len(WireEdges(adWire)) = LongBits

\* C6: over the calls made on an adapter, the TCK rising edges on the wire
\* add up to the bit lengths and cycle counts requested.
Cex_C6 == adEmit = adReq

-----------------------------------------------------------------------------
(* Properties of the MPSSE adapter *)

-----------------------------------------------------------------------------
(* Properties of runTest *)

\* the tracked state after the first k adapter calls of the last handler
TrackedAfter(k) ==
    applyTMSSequence(prevState, Concat([j \in 1..k |-> calls[j].tms]))

ToggleCalls == {k \in 1..Len(calls) : calls[k].op = "toggleClockCycles"}

\* C11: runTest moves to the run state, then asks the adapter for exactly
\* `cycles` clock cycles while the tracked state is the run state, then moves
\* to the end state when it differs; on return the tracked state is the end
\* state.
Cex_C11 ==
    lastCmd.type = "RUNTEST" =>
        /\ lastCmd.cycles = 0 => ToggleCalls = {}
        /\ lastCmd.cycles > 0 =>
               /\ Cardinality(ToggleCalls) = 1
               /\ \A k \in ToggleCalls :
                      /\ calls[k].n = lastCmd.cycles
                      /\ TrackedAfter(k - 1) = lastCmd.target
                      /\ \A j \in (k + 1)..Len(calls) :
                             lastCmd.endState # lastCmd.target
        /\ currentState = lastCmd.endState

-----------------------------------------------------------------------------
(* Properties of programSRAM *)

XFinished == xPc \in {"returned", "shown"}

\* the operations other than bare moves, and what each one is
TapOps == SelectSeq(xOps, LAMBDA o : o.op # "setState")
IsIr(o, instr, readBack) == o.op = "shiftIR" /\ o.arg = instr /\ o.readBack = readBack
IsClk(o, count) == o.op = "toggleClk" /\ o.arg = count
IsPoll(o) == IsIr(o, IrBypass, TRUE)

\* number of BYPASS polls: the operations between JPROGRAM and the first clocks
PollCount ==
    LET clk == {k \in 1..Len(TapOps) : TapOps[k].op = "toggleClk"}
    IN  IF clk = {} THEN Len(TapOps) - 2
        ELSE (CHOOSE k \in clk : \A j \in clk : k <= j) - 3

ChunkOps == SelectSeq(xOps, LAMBDA o : o.op = "shiftDR")

Mirror(byte) ==
    LET bit(j) == (byte \div (2 ^ j)) % 2
    IN  bit(0) * 128 + bit(1) * 64 + bit(2) * 32 + bit(3) * 16
        + bit(4) * 8 + bit(5) * 4 + bit(6) * 2 + bit(7)

\* C13: for a payload of L bytes programSRAM makes exactly ceil(L/4096)
\* shiftDR calls whose data, concatenated, is the payload with every byte
\* bit-reversed; each call but the last leaves the tracked state SHIFT_DR and
\* is followed directly by the next chunk's data with no TMS write between,
\* and the last leaves the tracked state UPDATE_DR.
Thm_C13 ==
    (xPc \in {"startup", "verify", "returned", "shown"}) =>
        LET n == Len(ChunkOps)
            len == Len(xBitstream)
        IN  /\ n = CeilDiv(len, ChunkSize)
            /\ Concat([k \in 1..n |-> ChunkOps[k].data])
                   = [i \in 1..len |-> Mirror(xBitstream[i])]
            /\ \A k \in 1..(n - 1) :
                   /\ ChunkOps[k].after = "SHIFT_DR"
                   /\ ~xFtdi[ChunkOps[k].to].last
                   /\ ChunkOps[k + 1].from = ChunkOps[k].to + 1
                   /\ xFtdi[ChunkOps[k + 1].from].op = "writeTDI"
            /\ n > 0 => ChunkOps[n].after = "UPDATE_DR"

Wit_C13 ==
    /\ xPc = "startup"
    /\ Len(xBitstream) = 2 * ChunkSize + 1
    /\ Len(ChunkOps) = 3
    /\ ChunkOps[2].after = "SHIFT_DR"
    /\ ChunkOps[3].after = "UPDATE_DR"

\* C14: the INIT poll makes between 1 and 100 shiftIR(BYPASS, capture) reads
\* and stops at the first read whose bit 0 is 1; whether INIT was seen or not,
\* programming goes on to the memory-clear clocks and CFG_IN.
Thm_C14 ==
    /\ xPc = "poll" => xRetry < MaxInitRetries /\ ~xInitDone
    /\ (xPc \notin {"idle", "reset", "jprogram", "poll"}) =>
        LET p == PollCount
            ops == TapOps
        IN  /\ p \in 1..MaxInitRetries
            /\ \A k \in 1..p : IsPoll(ops[2 + k])
            /\ \A k \in 1..(p - 1) : ops[2 + k].tdo % 2 = 0
            /\ ops[2 + p].tdo % 2 = 1 \/ p = MaxInitRetries
            /\ xInitDone <=> ops[2 + p].tdo % 2 = 1
            /\ xPc \in {"clear", "cfgin", "chunks", "startup", "verify",
                        "returned", "shown"}
            /\ XFinished =>
                   /\ IsClk(ops[p + 3], MemClearClocks)
                   /\ IsIr(ops[p + 4], IrCfgIn, FALSE)

Wit_C14 ==
    /\ xPc = "returned"
    /\ ~xInitDone
    /\ xRetry = MaxInitRetries
    /\ PollCount = MaxInitRetries

\* C15: once the run is over, the result returned and the status shown say
\* success when the DONE bit of the final capture was 1 and failure when it
\* was 0.
Cex_C15 ==
    xPc = "shown" =>
        /\ xDone = 1 => xResult = "true" /\ xStatus = "success"
        /\ xDone = 0 => xResult # "true" /\ xStatus # "success"

\* C16: in one programming run the percent values reported, in order, never
\* decrease and each lies in 0..100; this holds for programSRAM with any
\* payload and poll outcome and for the SVF command loop with any command count.
NonDecreasing(seq) ==
    /\ \A k \in 1..Len(seq) : seq[k] \in 0..100
    /\ \A k \in 1..(Len(seq) - 1) : seq[k] <= seq[k + 1]

Cex_C16 == NonDecreasing(xProgress) /\ NonDecreasing(runProgress)

-----------------------------------------------------------------------------
(* Properties of programDevice *)

\* C20: once executing command i has thrown, the requests made on the engine
\* are the reset and commands 0..i and nothing after them, the loop index
\* stays at i, and the run ends with the error status.
Thm_C20 ==
    runFailAt >= 0 =>
        /\ runReqs = [k \in 1..(runFailAt + 2) |-> k - 2]
        /\ runI = runFailAt
        /\ runPc = "done"
        /\ runStatus = "error"

Wit_C20 ==
    /\ runFailAt = 3
    /\ runCmds = 6
    /\ runPc = "done"
    /\ runProgress = <<17, 33, 50>>

\* C21: once a cancel signal has been raised during a run, the run makes no
\* further executeCommand request and no further programming step (at most the
\* reset that tears the TAP down), and it ends with the Cancelled result.
Cex_C21 ==
    cancelled =>
        /\ \A k \in (cancelMark[1] + 1)..Len(runReqs) : runReqs[k] = -1
        /\ \A k \in (cancelMark[2] + 1)..Len(xOps) : xOps[k].op = "reset"
        /\ runPc = "done" => runStatus = "cancelled"
        /\ xPc \in {"returned", "shown"} => xResult = "cancelled"

\* C22: every USB request made on the device since a run was started was
\* issued by that run's adapter, none by a handler fired during the run.
Cex_C22 == \A k \in 1..Len(usbLog) : usbLog[k][1] = "run"

\* C23: the commands a run hands to executeCommand are those of the list
\* loaded when it started, in file order, each once; a run that ends with the
\* success status has executed all of them.
Cex_C23 ==
    /\ Len(runExecd) <= runStartCmds
    /\ \A k \in 1..Len(runExecd) : runExecd[k] = <<0, k - 1>>
    /\ runStatus = "success" => Len(runExecd) = runStartCmds

-----------------------------------------------------------------------------
(* Properties of the MPSSE buffer *)

\* bytes transferred out before record j of a call's transfer log
OutBefore(log, j) == OutBytes(SubSeq(log, 1, j - 1))

\* C17: in every call on the MPSSE adapter a read of the IN endpoint comes
\* directly after an OUT transfer, the bytes sent before it start with
\* everything that was buffered when the call began and end with
\* SEND_IMMEDIATE, and nothing stays buffered behind it; and on return from
\* writeTDI with a bit length above 0, from toggleClk and from writeTMS with
\* flush, the buffer is empty and the pending-read counter is 0.
Thm_C17 ==
    [][mpCount' = mpCount + 1 =>
          /\ \A j \in 1..Len(mpLog') :
                 mpLog'[j].dir = "in" =>
                     /\ j > 1
                     /\ mpLog'[j - 1].dir = "out"
                     /\ LET sent == OutBefore(mpLog', j)
                        IN  /\ Len(sent) > Len(mpBuffer)
                            /\ SubSeq(sent, 1, Len(mpBuffer)) = mpBuffer
                            /\ sent[Len(sent)] = SendImmediate
                     /\ j = Len(mpLog')
                     /\ mpBuffer' = <<>>
          /\ (\/ mpCall'.op = "writeTDI" /\ mpCall'.n > 0
              \/ mpCall'.op = "toggleClk"
              \/ mpCall'.op = "writeTMS" /\ mpCall'.doFlush)
                 => mpBuffer' = <<>> /\ mpReadPending' = 0]_vars

Wit_C17 ==
    /\ mpCount = 2
    /\ mpCall.op = "writeTDI"
    /\ mpCall.readBack
    /\ mpCall.n = MaxBits
    /\ Len(mpLog) = 2
    /\ mpLog[2].dir = "in"
    /\ mpLog[1].data[1] = WriteTmsCmd
    /\ mpBuffer = <<>>
    /\ mpReadPending = 0

-----------------------------------------------------------------------------
(* Properties of the IN endpoint reads *)

\* C18: flushAndRead(k) returns exactly the k payload bytes the device sent,
\* in order, whatever the number of payload bytes per IN transfer and the
\* number of 64-byte packets a transfer carries.
Cex_C18 == (rdDone /\ rdLen = 0) => rdData = ReadPayload(rdK)


\* C19: after writeTDI with read-back of n bits, bit i of the tdo buffer,
\* LSB first, is the TDO value the device sampled on clock edge i, for every
\* i below n, with and without the TMS exit on the last bit.
Cex_C19 ==
    (rdDone /\ rdLen > 0) =>
        \A i \in 0..(rdLen - 1) :
            BitOf(rdTdo[(i \div 8) + 1], i % 8) = TdoSample(rdPattern, i)

-----------------------------------------------------------------------------
(* Frame of the commands that only store *)

StoredName(s) == IF s = Undefined THEN "IDLE" ELSE s

\* C30: ENDDR s changes the stored DR end state and nothing else, ENDIR s the
\* stored IR end state and nothing else; these two, FREQUENCY, TRST, the
\* header and trailer commands and unknown commands make no adapter call, put
\* no edge on the wire and leave the tracked and the device TAP state as
\* they were.
Thm_C30 ==
    [][(lastCmd'.type \in {"ENDIR", "ENDDR"} \cup HdrTypes \cup NoopTypes) =>
          /\ calls' = <<>>
          /\ WireEdges(WireOfCalls(calls')) = <<>>
          /\ currentState' = currentState
          /\ realState' = realState
          /\ lastCmd'.type = "ENDDR" =>
                 /\ endDRState' = StoredName(lastCmd'.target)
                 /\ UNCHANGED <<endIRState, hdrs, resetDone>>
          /\ lastCmd'.type = "ENDIR" =>
                 /\ endIRState' = StoredName(lastCmd'.target)
                 /\ UNCHANGED <<endDRState, hdrs, resetDone>>
          /\ lastCmd'.type \in HdrTypes \cup NoopTypes =>
                 UNCHANGED <<endIRState, endDRState>>]_vars

Wit_C30 ==
    /\ lastCmd.type = "ENDDR"
    /\ lastCmd.target = "DRPAUSE"
    /\ endDRState = "DRPAUSE"
    /\ endIRState = "irpause"
    /\ currentState = "IRPAUSE"
    /\ calls = <<>>

-----------------------------------------------------------------------------
(* Wire bytes of single adapter calls *)

IsExampleD == adCall.op = "shiftBytes" /\ adCall.n = 24 /\ adCall.tdi = <<170, 85, 255>>

\* C24 as stated: shiftBytes([0xAA,0x55,0xFF], 24) writes 0x2C, then 0x83 and
\* the three data bytes, then the last bit of the last byte as one bit-bang
\* pair with TMS=1.
Cex_C24 == IsExampleD => adWire = <<44, 131, 170, 85, 255, 62, 63>>

\* C24 as amended: the call writes 0x2C, then 0x82 and the first two data
\* bytes, then bits 0..6 of the last byte as bit-bang pairs with TMS=0 and bit
\* 7 as a bit-bang pair with TMS=1.
Thm_C24 ==
    IsExampleD =>
        adWire = <<44, 130, 170, 85>>
                 \o [k \in 1..14 |-> IF k % 2 = 1 THEN 60 ELSE 61]
                 \o <<62, 63>>

Wit_C24 == IsExampleD /\ Len(adWire) = 20 /\ Len(WireEdges(adWire)) = 24


IsExampleE ==
    /\ mpCount = 1
    /\ mpCall.op = "writeTDI" /\ mpCall.n = 8 /\ mpCall.tdi = <<129>>
    /\ mpCall.lastBitWithTMS /\ ~mpCall.readBack

\* C25 as stated: an 8-bit MPSSE shift of 0x81 with the TMS exit on the last
\* bit and no capture emits the bit-mode write (0x1B, 6, 0x01) and then the
\* TMS write (0x4B, 0, 0x81), and no other command byte.
Cex_C25 == IsExampleE => OutBytes(mpLog) = <<27, 6, 1, 75, 0, 129>>

\* C25 as amended: the bit-mode write carries the data byte as given,
\* (0x1B, 6, 0x81), of which the device clocks bits 0..6; the TMS write is
\* (0x4B, 0, 0x81).
Thm_C25 ==
    IsExampleE =>
        /\ OutBytes(mpLog) = <<27, 6, 129, 75, 0, 129>>
        /\ mpBuffer = <<>>

Wit_C25 == IsExampleE /\ Len(mpLog) = 1 /\ MpsseEdges(OutBytes(mpLog), 1) = 8

-----------------------------------------------------------------------------
(* Properties of bitReverse and parseHexData *)

\* C26: bitReverse applied twice gives the array back, and bitReverse keeps
\* the length and puts bit 7-j of each input byte into bit j of the output.
Thm_C26 ==
    rvDone =>
        /\ rvTwice = rvData
        /\ Len(rvOnce) = Len(rvData)
        /\ \A i \in 1..Len(rvData) : \A j \in 0..7 :
               BitOf(rvOnce[i], j) = BitOf(rvData[i], 7 - j)

Wit_C26 == rvDone /\ rvData = <<209, 246, 27>> /\ rvOnce = <<139, 111, 216>>

\* the value of the k-th pair of hex digits counted from the right end, the
\* literal padded with zero digits on the left
PairFromRight(hex, k) ==
    LET digit(p) == IF p >= 1 THEN hex[p] ELSE 0
    IN  16 * digit(Len(hex) - 2 * k + 1) + digit(Len(hex) - 2 * k + 2)

\* C27: for a statement of nominal length n each parsed field has exactly
\* ceil(n/8) bytes, byte i being the i-th pair of hex digits from the right
\* and zero beyond the literal, whether the literal is shorter than, as long
\* as, or longer than ceil(n/8) bytes.
Cex_C27 ==
    hxDone =>
        /\ Len(hxBytes) = CeilDiv(hxLen, 8)
        /\ \A i \in 1..Len(hxBytes) : hxBytes[i] = PairFromRight(hxHex, i)

-----------------------------------------------------------------------------
(* Properties of connect() *)

\* C29: when the FTDI reset control transfer is the request that fails during
\* initialization, either adapter logs it as a warning, issues every remaining
\* request of its initialization in order, and connect() completes.
StepNames(log) == [k \in 1..Len(log) |-> log[k][1]]

Cex_C29 ==
    cnDone /\ cnFail = {"SIO_RESET"} =>
        /\ cnResult = "connected"
        /\ cnWarn = <<"SIO_RESET">>
        /\ StepNames(cnLog) = IF cnAdapter = "USBBlasterII"
                              THEN LegacySteps(cnDrain) ELSE MpsseSteps

-----------------------------------------------------------------------------
(* Properties of a faulty USB link *)

\* C28: a call whose bulk OUT stalls or is rejected, or whose read-back gets
\* fewer bytes than it asked for after all retries, ends with an error: it
\* neither returns data nor stays pending for ever; a call on a sound link
\* returns the bytes asked for.
Cex_C28 ==
    stOutcome # "none" =>
        IF stOut = "ok" /\ stAvail = stK
        THEN stOutcome = "returned" /\ stData = ReadPayload(stK)
        ELSE stOutcome = "error"

-----------------------------------------------------------------------------
(* moveToState with a target that is not a state of the table *)

\* C37: a STATE command whose target is not one of the 16 keys of the
\* transition table makes no adapter call, puts no TCK edge on the wire and
\* leaves the tracked state unchanged; a RUNTEST naming such a run state makes
\* no move before its clock cycles.
Thm_C37 ==
    [][/\ (lastCmd'.type = "STATE" /\ lastCmd'.target \notin States) =>
              /\ calls' = <<>>
              /\ WireEdges(WireOfCalls(calls')) = <<>>
              /\ currentState' = currentState
              /\ realState' = realState
       /\ (lastCmd'.type = "RUNTEST" /\ lastCmd'.target \notin States
              /\ lastCmd'.cycles > 0) =>
              /\ calls' # <<>>
              /\ calls'[1] = CallToggle(lastCmd'.cycles)]_vars

Wit_C37 ==
    /\ lastCmd.type = "STATE"
    /\ lastCmd.target = "idle"
    /\ currentState = "DRPAUSE"
    /\ prevState = "DRPAUSE"
    /\ calls = <<>>


-----------------------------------------------------------------------------
(* Properties of XilinxJTAG.setState over all ordered pairs of states *)

\* C33: for every ordered pair (from, target) of the 16 states, the TMS
\* sequence setState emits is as long as a shortest path from `from` to
\* `target` in the TAP transition graph.
Cex_C33 ==
    ssDone => Len(ssTms) = Dist(TapName[ssFrom], TapName[ssTo])

\* C34: for every ordered pair (from, target) of the 16 states, setState
\* terminates, each (state, tms, next) step it takes is a transition of the TAP
\* table, and on return the tracked state is the target.
Thm_C34 ==
    ssDone =>
        /\ ssEnded
        /\ ssState = ssTo
        /\ Len(ssPath) = Len(ssTms)
        /\ \A k \in 1..Len(ssPath) :
               LET before == IF k = 1 THEN ssFrom ELSE ssPath[k - 1]
               IN  TapStep(TapName[before], ssTms[k]) = TapName[ssPath[k]]
        /\ TapRun(TapName[ssFrom], ssTms) = TapName[ssTo]

Wit_C34 ==
    /\ ssDone
    /\ ssFrom = "PAUSE_DR"
    /\ ssTo = "EXIT1_DR"
    /\ ssTms = <<1, 1, 1, 0, 1>>
    /\ ssPath = <<"EXIT2_DR", "UPDATE_DR", "SELECT_DR_SCAN", "CAPTURE_DR", "EXIT1_DR">>
    /\ ssState = "EXIT1_DR"


-----------------------------------------------------------------------------
(* Properties of clock-only cycles and of the tracked state in programSRAM *)

\* the states a TCK edge with TMS=0 leaves unchanged
ClockStable == {s \in States : TapStep(s, 0) = s}

\* C35: whenever runTest asks the adapter for clock-only cycles, the tracked
\* state at that moment is one that TMS=0 clocks leave unchanged, so a tracked
\* state that equalled the device state before the command equals it after.
Cex_C35 ==
    [][(lastCmd'.type = "RUNTEST" /\ lastCmd'.cycles > 0) =>
           /\ moveToState(Fresh, lastCmd'.target).cur \in ClockStable
           /\ currentState = realState => currentState' = realState']_vars

\* the tracked states an engine call of programSRAM passes through, the one
\* it returns in included
TrackedPath(op) ==
    LET walk(from, to) == SetStateLoop(from, to, <<>>, <<>>, SetStateTurns).path
        shift(shiftState, exitState) ==
            walk(op.before, shiftState) \o
            (IF op.after = shiftState THEN <<>>
             ELSE <<exitState>> \o walk(exitState, op.after))
    IN  CASE op.op = "setState" -> walk(op.before, op.after)
          [] op.op = "shiftIR" -> shift("SHIFT_IR", "EXIT1_IR")
          [] op.op = "shiftDR" -> shift("SHIFT_DR", "EXIT1_DR")
          [] op.op = "reset" -> <<"TEST_LOGIC_RESET">>
          [] OTHER -> <<>>

\* C36: in programSRAM, for every payload length, no engine call made after
\* shift_ir(JPROGRAM) has completed and before the final TAP reset takes the
\* tracked state into or through TEST_LOGIC_RESET.
Cex_C36 ==
    \A k \in 1..Len(xOps) :
        (/\ xOps[k].op # "reset"
         /\ \E j \in 1..(k - 1) : xOps[j].op = "shiftIR" /\ xOps[j].arg = IrJprogram
         /\ \A j \in 2..(k - 1) : xOps[j].op # "reset")
        => \A i \in 1..Len(TrackedPath(xOps[k])) :
               TrackedPath(xOps[k])[i] # "TEST_LOGIC_RESET"


-----------------------------------------------------------------------------
(* Properties of the page's program buttons *)

\* C38: the program button of the SVF tab is disabled from the start of a
\* programming run until the run completes or fails, so that no second run can
\* be started while one is in progress, and it is enabled when the run has
\* ended in either way.
Cex_C38 ==
    /\ runPc \in {"reset", "loop", "exec"} => programBtnDisabled
    /\ runPc = "done" => ~programBtnDisabled


-----------------------------------------------------------------------------
(* Properties of the .bit payload extraction *)

\* C32: for a .bit file with a well-formed tagged header of any size the
\* configuration payload handed to programSRAM is the data of the e field, and
\* for a raw payload without header it is the entire file.
Cex_C32 ==
    bfDone => bfConfig = bfPayload


-----------------------------------------------------------------------------
(* Properties of the SVF parser *)

\* the text with every comment, from the mark to the end of its line, removed
Uncommented(text) ==
    LET lines == Split(text, "\n")
    IN  Concat([k \in 1..Len(lines) |->
                   (IF k > 1 THEN <<"\n">> ELSE <<>>) \o Split(lines[k], "!")[1]])

\* the statements of a text: the pieces of the uncommented text that a
\* semicolon ends, in file order
Statements(text) ==
    LET pieces == Split(Uncommented(text), ";")
    IN  SubSeq(pieces, 1, Len(pieces) - 1)

\* the words of a text: its maximal runs of characters other than blanks and
\* line breaks
Words(text) == SelectSeq(SplitBlanks(text), LAMBDA t : t # <<>>)

\* C31: parse yields one command per semicolon-terminated statement, in file
\* order, wherever the semicolon falls relative to line breaks: command k is
\* made of the words of statement k.
Cex_C31 ==
    svDone =>
        /\ Len(svCommands) = Len(Statements(svText))
        /\ \A k \in 1..Len(svCommands) :
               Words(svCommands[k].raw) = Words(Statements(svText)[k])

====
